---------------------------- MODULE Spec2Model ----------------------------
(***************************************************************************)
(* Model of src/backend/utils/misc/timeout.c: the multiplexer of SIGALRM   *)
(* over several timeout reasons.                                           *)
(*                                                                         *)
(* Control is a stack of frames.  The empty stack is mainline code outside *)
(* the module.  An "api" frame is a public function that has executed its  *)
(* disable_alarm(); a "sig" frame is handle_sig_alarm past its test of     *)
(* alarm_enabled.  SIGALRM is delivered between any two steps of mainline  *)
(* code; it stays blocked while handle_sig_alarm runs (pqsignal installs   *)
(* the handler without SA_NODEFER), so there is at most one "sig" frame.   *)
(* A timeout handler called from the dispatch loop may itself call one of  *)
(* the public functions, which pushes an "api" frame on top of the "sig"   *)
(* frame.                                                                  *)
(*                                                                         *)
(* Time is counted in ticks.  The clock saturates at MaxTime: a reading of *)
(* MaxTime means "MaxTime or later".  All deadlines are at most MaxTime,   *)
(* so every comparison of a clock reading with a deadline is exact.        *)
(***************************************************************************)
EXTENDS Integers, Sequences, FiniteSets, TLC

\* ------------------------------------------------------------------ bounds

\* Number of timeout reasons (MAX_TIMEOUTS of utils/timeout.h, scaled down).
MAX_TIMEOUTS == 2

\* Latest clock reading and latest deadline.
MaxTime == 2

\* Longest request list passed to enable_timeouts / disable_timeouts.
MaxBatch == 2

\* Number of portal structs PortalMemory holds at a time.
MaxPortals == 2

\* Number of distinct portal names in use.
MaxNames == 2

\* Largest SubTransactionId a transaction hands out.
MaxSubXact == 2

\* Largest count kept of the calls of one portal's cleanup hook.
MaxCalls == 2

\* Largest SubTransactionId of a transaction whose subtransactions nest.
MaxNesting == 3

\* Largest value of the unsigned int that counts the unnamed portals.
UINT_MAX == 3

\* ------------------------------------------------------- id partition

\* First id of the user range; the ids below it are the predefined reasons.
USER_TIMEOUT == MAX_TIMEOUTS - 1

\* First id after the user range.
GP_PARALLEL_RETRIEVE_CURSOR_CHECK_TIMEOUT == MAX_TIMEOUTS

TimeoutId == 0 .. (MAX_TIMEOUTS - 1)

Times == 0 .. MaxTime

\* ------------------------------------------------------------------ state

VARIABLES
    clock,            \* GetCurrentTimestamp(), saturating at MaxTime
    all_timeouts,     \* all_timeouts[]: one timeout_params per id
    active_timeouts,  \* active_timeouts[0 .. num_active_timeouts-1], as ids
    alarm_enabled,    \* the flag gating the signal handler
    itimer,           \* ITIMER_REAL: 0 when disarmed, else the time it expires
    sigpending,       \* a SIGALRM has been generated and not yet delivered
    stack,            \* the control stack, innermost frame last
    ev,               \* the step just taken
    all_timeouts_initialized,  \* InitializeTimeouts has run
    PortalHashTable,  \* the entries of the portal hash table, in scan order
    portals,          \* PortalMemory: the portal structs, by address
    CurrentTransactionState,  \* the stack of open (sub)transactions
    unnamed_portal_count,  \* the static counter of CreateNewPortal
    pev               \* the portal step just taken

\* The state of portalmem.c.
portal_vars == <<PortalHashTable, portals, CurrentTransactionState,
                 unnamed_portal_count, pev>>

\* The state of timeout.c.
timeout_vars == <<clock, all_timeouts, active_timeouts, alarm_enabled, itimer,
                  sigpending, stack, ev, all_timeouts_initialized>>

vars == <<timeout_vars, portal_vars>>

num_active_timeouts == Len(active_timeouts)

\* struct timeout_params; timeout_handler is TRUE when the callback is set.
timeout_params ==
    [active : BOOLEAN, indicator : BOOLEAN, timeout_handler : BOOLEAN,
     start_time : Times, fin_time : Times]

\* The step labels kept in ev.
Event(kind, id, val, flag) == [kind |-> kind, id |-> id, val |-> val, flag |-> flag]

NoId == 0 - 1

\* ------------------------------------------------- internal helper functions

\* find_active_timeout: the position of id in the active array, 0 if absent
\* (positions are 1-based here, so C's -1 is 0).
RECURSIVE FindFrom(_, _, _)
FindFrom(act, id, i) ==
    IF i > Len(act) THEN 0
    ELSE IF act[i] = id THEN i
    ELSE FindFrom(act, id, i + 1)

find_active_timeout(act, id) == FindFrom(act, id, 1)

\* The multiplexer's data: the reason table and the active array.
Mux(all, act) == [all |-> all, act |-> act]

\* insert_timeout(id, index): mark active and insert at position index.
insert_timeout(m, id, index) ==
    Mux([m.all EXCEPT ![id].active = TRUE],
        SubSeq(m.act, 1, index - 1) \o <<id>> \o SubSeq(m.act, index, Len(m.act)))

\* A remove_timeout_index that leaves the active flag set.
remove_timeout_index_KeepsFlag(m, index) ==
    Mux(m.all,
        SubSeq(m.act, 1, index - 1) \o SubSeq(m.act, index + 1, Len(m.act)))

\* remove_timeout_index(index): mark inactive and close the gap.
remove_timeout_index(m, index) ==
    Mux([m.all EXCEPT ![m.act[index]].active = FALSE],
        SubSeq(m.act, 1, index - 1) \o SubSeq(m.act, index + 1, Len(m.act)))

\* The loop of enable_timeout that finds where to insert: the first position
\* whose entry is later, or equally late with a larger id.
RECURSIVE InsertIndexFrom(_, _, _, _)
InsertIndexFrom(m, id, fin_time, i) ==
    IF i > Len(m.act) THEN i
    ELSE IF fin_time < m.all[m.act[i]].fin_time THEN i
    ELSE IF fin_time = m.all[m.act[i]].fin_time /\ id < m.act[i] THEN i
    ELSE InsertIndexFrom(m, id, fin_time, i + 1)

\* An insertion loop without the comparison of ids at equal fin_time.
RECURSIVE InsertIndexNoTieFrom(_, _, _)
InsertIndexNoTieFrom(m, fin_time, i) ==
    IF i > Len(m.act) THEN i
    ELSE IF fin_time < m.all[m.act[i]].fin_time THEN i
    ELSE InsertIndexNoTieFrom(m, fin_time, i + 1)

InsertIndex_NoTieBreak(m, id, fin_time) == InsertIndexNoTieFrom(m, fin_time, 1)

\* An insertion that appends, whatever the deadline.
InsertIndex_Append(m, id, fin_time) == Len(m.act) + 1

InsertIndex(m, id, fin_time) == InsertIndexFrom(m, id, fin_time, 1)

\* A reschedule branch that leaves the old entry in the queue.
RemoveIfActive_Never(m, id) == m

\* The reschedule branch of enable_timeout: an active reason is first removed.
RemoveIfActive(m, id) ==
    IF m.all[id].active
    THEN remove_timeout_index(m, find_active_timeout(m.act, id))
    ELSE m

\* An enable_timeout that leaves the indicator as it is.
enable_timeout_KeepsIndicator(m, id, now, fin_time) ==
    LET m1 == RemoveIfActive(m, id)
        i  == InsertIndex(m1, id, fin_time)
        m2 == Mux([m1.all EXCEPT ![id].start_time = now,
                                 ![id].fin_time = fin_time],
                  m1.act)
    IN  insert_timeout(m2, id, i)

\* enable_timeout(id, now, fin_time)
enable_timeout(m, id, now, fin_time) ==
    LET m1 == RemoveIfActive(m, id)
        i  == InsertIndex(m1, id, fin_time)
        m2 == Mux([m1.all EXCEPT ![id].indicator = FALSE,
                                 ![id].start_time = now,
                                 ![id].fin_time = fin_time],
                  m1.act)
    IN  insert_timeout(m2, id, i)

\* A difference of timestamps that is negative when stop is the earlier.
TimestampDifference_Signed(start, stop) == stop - start

\* TimestampDifference(start, stop): never negative.
TimestampDifference(start, stop) == IF stop <= start THEN 0 ELSE stop - start

\* The interval without the correction of a zero difference.
AlarmInterval_NoClamp(now, fin_time) == TimestampDifference(now, fin_time)

\* The interval schedule_alarm computes for the head of the queue: the time
\* remaining, or the smallest positive interval when nothing remains.
AlarmInterval(now, fin_time) ==
    LET d == TimestampDifference(now, fin_time)
    IN  IF d = 0 THEN 1 ELSE d

\* TimestampTzPlusMilliseconds, with the tick as the unit of delay.
TimestampTzPlusMilliseconds(tz, ms) == tz + ms

\* ----------------------------------------------------------------- frames

\* The public functions that begin with disable_alarm().
ApiNames ==
    {"enable_timeout_after", "enable_timeout_at", "enable_timeouts",
     "disable_timeout", "disable_timeouts", "disable_all_timeouts",
     "reschedule_timeouts"}

\* A frame: the function, where it is, and its locals: now, the interval
\* computed by schedule_alarm, the loop index i of the batch functions, and in
\* handle_sig_alarm this_timeout and whether its handler has made a call.
Frame(kind, name, pc) ==
    [kind |-> kind, name |-> name, pc |-> pc, now |-> 0, delta |-> 0, i |-> 0,
     this_timeout |-> NoId, called |-> FALSE]

Top == stack[Len(stack)]

Pop == SubSeq(stack, 1, Len(stack) - 1)

ReplaceTop(f) == Pop \o <<f>>

InSignalHandler == \E k \in 1 .. Len(stack) : stack[k].kind = "sig"

\* The process is gone after elog(FATAL).
Running == ev.kind # "FATAL"

\* Code that may call the public functions: mainline outside the module, or
\* a timeout handler that has not yet made its call.
CanCall ==
    /\ Running
    /\ all_timeouts_initialized
    /\ \/ stack = <<>>
       \/ /\ stack # <<>>
          /\ Top.kind = "sig" /\ Top.pc = "handler" /\ ~Top.called

\* The stack after a call; a timeout handler is marked as having called.
PushCall(f) ==
    IF stack = <<>> THEN <<f>>
    ELSE ReplaceTop([Top EXCEPT !.called = TRUE]) \o <<f>>

At(name, pc) ==
    /\ Running
    /\ stack # <<>>
    /\ Top.name = name /\ Top.pc = pc

AtPc(pc) ==
    /\ Running
    /\ stack # <<>>
    /\ Top.pc = pc

Registered(id) == all_timeouts[id].timeout_handler

CurMux == Mux(all_timeouts, active_timeouts)

SetMux(m) ==
    /\ all_timeouts' = m.all
    /\ active_timeouts' = m.act

\* schedule_alarm(now) up to, and not including, enable_alarm(): with a
\* non-empty queue the frame goes on to enable_alarm() with the interval for
\* the head; with an empty queue the function, and its caller, return.
\* A rescheduling that returns without calling schedule_alarm.
ScheduleOrReturn_NeverSchedules(m, now) == Pop

ScheduleOrReturn(m, now) ==
    IF Len(m.act) > 0
    THEN ReplaceTop([Top EXCEPT
             !.name = "schedule_alarm", !.pc = "enable_alarm", !.now = now, !.i = 0,
             !.delta = AlarmInterval(now, m.all[m.act[1]].fin_time)])
    ELSE Pop

\* ------------------------------------------------------------------- Init

\* The reason table InitializeTimeouts() leaves, which is also that of the
\* zeroed static storage of a new process.
NoTimeouts ==
    [id \in TimeoutId |->
        [active |-> FALSE, indicator |-> FALSE, timeout_handler |-> FALSE,
         start_time |-> 0, fin_time |-> 0]]

\* The static storage of timeout.c in a new process.
TimeoutInit ==
    /\ all_timeouts_initialized = FALSE
    /\ clock = 0
    /\ all_timeouts = NoTimeouts
    /\ active_timeouts = <<>>
    /\ alarm_enabled = FALSE
    /\ itimer = 0
    /\ sigpending = FALSE
    /\ stack = <<>>
    /\ ev = Event("step", NoId, 0, FALSE)

\* InitializeTimeouts(), called once by the new process.
InitializeTimeouts ==
    /\ ~all_timeouts_initialized
    /\ stack = <<>>
    /\ alarm_enabled' = FALSE
    /\ active_timeouts' = <<>>
    /\ all_timeouts' = NoTimeouts
    /\ all_timeouts_initialized' = TRUE
    /\ ev' = Event("InitializeTimeouts", NoId, 0, FALSE)
    /\ UNCHANGED <<clock, itimer, sigpending, stack, portal_vars>>

\* ------------------------------------------------------- clock and timer

\* Time passes.
Tick ==
    /\ Running
    /\ clock < MaxTime
    /\ clock' = clock + 1
    /\ ev' = Event("step", NoId, 0, FALSE)
    /\ UNCHANGED <<all_timeouts, active_timeouts, alarm_enabled, itimer,
                   sigpending, stack>>
    /\ UNCHANGED <<all_timeouts_initialized, portal_vars>>

\* The one-shot interval timer expires and generates SIGALRM.
TimerExpire ==
    /\ Running
    /\ itimer # 0
    /\ clock >= itimer \/ clock = MaxTime
    /\ itimer' = 0
    /\ sigpending' = TRUE
    /\ ev' = Event("step", NoId, 0, FALSE)
    /\ UNCHANGED <<clock, all_timeouts, active_timeouts, alarm_enabled, stack>>
    /\ UNCHANGED <<all_timeouts_initialized, portal_vars>>

\* setitimer(ITIMER_REAL, interval): an interval of zero disarms the timer;
\* otherwise it expires interval from the present, and every time after
\* MaxTime is the same time.
Setitimer(interval) ==
    IF interval = 0 THEN 0
    ELSE IF clock + interval > MaxTime THEN MaxTime + 1
    ELSE clock + interval

\* --------------------------------------------------------- signal handler

\* A handler that does not look at alarm_enabled.
HandlerAllowed_Always == TRUE

\* The test "if (alarm_enabled)" of handle_sig_alarm.
HandlerAllowed == alarm_enabled

\* handle_sig_alarm, from delivery to the end of its tests of alarm_enabled
\* and num_active_timeouts.
handle_sig_alarm ==
    /\ Running
    /\ sigpending
    /\ ~InSignalHandler
    /\ sigpending' = FALSE
    /\ IF ~HandlerAllowed
       THEN /\ ev' = Event("sig_ignored", NoId, 0, FALSE)
            /\ UNCHANGED <<alarm_enabled, stack>>
       ELSE /\ alarm_enabled' = FALSE
            /\ ev' = Event("sig_taken", NoId, 0, FALSE)
            /\ IF num_active_timeouts > 0
               THEN stack' = stack \o
                        <<[Frame("sig", "handle_sig_alarm", "loop") EXCEPT !.now = clock]>>
               ELSE UNCHANGED stack
    /\ UNCHANGED <<clock, all_timeouts, active_timeouts, itimer>>
    /\ UNCHANGED <<all_timeouts_initialized, portal_vars>>

\* A SIGALRM taken while mainline, outside this module, has
\* ImmediateInterruptOK set, and a SIGINT that interrupts handle_sig_alarm
\* before its HOLD_INTERRUPTS(): control goes to the error recovery of
\* mainline and the SIGALRM is lost.
handle_sig_alarm_lost ==
    /\ Running
    /\ sigpending
    /\ stack = <<>>
    /\ sigpending' = FALSE
    /\ ev' = Event("sig_lost", NoId, 0, FALSE)
    /\ UNCHANGED <<clock, all_timeouts, active_timeouts, alarm_enabled, itimer,
                   stack, all_timeouts_initialized, portal_vars>>

\* One test of the while loop of handle_sig_alarm: either the head is due, it
\* is removed and marked as fired and its handler is called, or the loop ends
\* and schedule_alarm(now) begins.
handle_sig_alarm_loop ==
    /\ At("handle_sig_alarm", "loop")
    /\ IF /\ num_active_timeouts > 0
          /\ Top.now >= all_timeouts[active_timeouts[1]].fin_time
       THEN LET this_timeout == active_timeouts[1]
                m == remove_timeout_index(CurMux, 1)
            IN  /\ all_timeouts' = [m.all EXCEPT ![this_timeout].indicator = TRUE]
                /\ active_timeouts' = m.act
                /\ stack' = ReplaceTop([Top EXCEPT !.pc = "handler",
                                                  !.this_timeout = this_timeout])
                /\ ev' = Event("fire", this_timeout, 0, FALSE)
       ELSE /\ stack' = ScheduleOrReturn(CurMux, Top.now)
            /\ ev' = Event("step", NoId, 0, FALSE)
            /\ UNCHANGED <<all_timeouts, active_timeouts>>
    /\ UNCHANGED <<clock, alarm_enabled, itimer, sigpending>>
    /\ UNCHANGED <<all_timeouts_initialized, portal_vars>>

\* The timeout handler returns; the loop reads the clock again.
timeout_handler_return ==
    /\ At("handle_sig_alarm", "handler")
    /\ stack' = ReplaceTop([Top EXCEPT !.pc = "loop", !.now = clock,
                                      !.this_timeout = NoId, !.called = FALSE])
    /\ ev' = Event("step", NoId, 0, FALSE)
    /\ UNCHANGED <<clock, all_timeouts, active_timeouts, alarm_enabled, itimer,
                   sigpending>>
    /\ UNCHANGED <<all_timeouts_initialized, portal_vars>>

\* --------------------------------------------------------- schedule_alarm

\* enable_alarm() in schedule_alarm.
schedule_alarm_enable ==
    /\ AtPc("enable_alarm")
    /\ alarm_enabled' = TRUE
    /\ stack' = ReplaceTop([Top EXCEPT !.pc = "setitimer"])
    /\ ev' = Event("step", NoId, 0, FALSE)
    /\ UNCHANGED <<clock, all_timeouts, active_timeouts, itimer, sigpending>>
    /\ UNCHANGED <<all_timeouts_initialized, portal_vars>>

\* setitimer() in schedule_alarm; schedule_alarm and its caller return.
schedule_alarm_setitimer ==
    /\ AtPc("setitimer")
    /\ itimer' = Setitimer(Top.delta)
    /\ stack' = Pop
    /\ ev' = Event("setitimer", NoId, Top.delta, FALSE)
    /\ UNCHANGED <<clock, all_timeouts, active_timeouts, alarm_enabled, sigpending>>
    /\ UNCHANGED <<all_timeouts_initialized, portal_vars>>

\* ------------------------------------------------------------- public API

\* RegisterTimeout(id, handler): the id the call registers, MAX_TIMEOUTS when
\* the user range has no free id.
RECURSIVE AllocateInvertedFrom(_, _)
AllocateInvertedFrom(all, id) ==
    IF id >= GP_PARALLEL_RETRIEVE_CURSOR_CHECK_TIMEOUT THEN MAX_TIMEOUTS
    ELSE IF all[id].timeout_handler THEN id
    ELSE AllocateInvertedFrom(all, id + 1)

\* An allocation loop that stops at the first id in use instead of the first
\* free one.
AllocateFrom_Inverted(all, id) == AllocateInvertedFrom(all, id)

RECURSIVE AllocateFrom(_, _)
AllocateFrom(all, id) ==
    IF id >= GP_PARALLEL_RETRIEVE_CURSOR_CHECK_TIMEOUT THEN MAX_TIMEOUTS
    ELSE IF ~all[id].timeout_handler THEN id
    ELSE AllocateFrom(all, id + 1)

RegisteredId(all, id) ==
    IF id >= USER_TIMEOUT /\ id < GP_PARALLEL_RETRIEVE_CURSOR_CHECK_TIMEOUT
    THEN AllocateFrom(all, USER_TIMEOUT)
    ELSE id

RegisterTimeout ==
    /\ Running
    /\ all_timeouts_initialized
    /\ stack = <<>>
    /\ \E id \in TimeoutId :
         LET rid == RegisteredId(all_timeouts, id)
         IN  IF rid = MAX_TIMEOUTS
             THEN /\ ev' = Event("FATAL", id, 0, FALSE)
                  /\ UNCHANGED all_timeouts
             ELSE /\ ~all_timeouts[rid].timeout_handler
                  /\ all_timeouts' = [all_timeouts EXCEPT ![rid].timeout_handler = TRUE]
                  /\ ev' = Event("RegisterTimeout", rid, 0, FALSE)
    /\ UNCHANGED <<clock, active_timeouts, alarm_enabled, itimer, sigpending, stack>>
    /\ UNCHANGED <<all_timeouts_initialized, portal_vars>>

\* The public functions that are passed the id of a registered reason.
TakesId == {"enable_timeout_after", "enable_timeout_at", "disable_timeout"}

\* The public functions the timeout handlers call.
HandlerApiNames == {"enable_timeout_after", "disable_timeout"}

\* The disable_alarm() that begins each of the public functions of ApiNames.
disable_alarm ==
    /\ CanCall
    /\ \E name \in ApiNames :
         /\ stack # <<>> => name \in HandlerApiNames
         /\ name \in TakesId => \E id \in TimeoutId : Registered(id)
         /\ stack' = PushCall(Frame("api", name, "body"))
    /\ alarm_enabled' = FALSE
    /\ ev' = Event("call", NoId, 0, FALSE)
    /\ UNCHANGED <<clock, all_timeouts, active_timeouts, itimer, sigpending>>
    /\ UNCHANGED <<all_timeouts_initialized, portal_vars>>

\* enable_timeout_after(id, delay_ms), after its disable_alarm().
enable_timeout_after ==
    /\ At("enable_timeout_after", "body")
    /\ \E id \in TimeoutId, delay_ms \in 0 .. MaxTime :
         /\ Registered(id)
         /\ TimestampTzPlusMilliseconds(clock, delay_ms) <= MaxTime
         /\ LET now == clock
                fin_time == TimestampTzPlusMilliseconds(now, delay_ms)
                m == enable_timeout(CurMux, id, now, fin_time)
            IN  /\ SetMux(m)
                /\ stack' = ScheduleOrReturn(m, now)
                /\ ev' = Event("enable", id, fin_time, all_timeouts[id].active)
    /\ UNCHANGED <<clock, alarm_enabled, itimer, sigpending>>
    /\ UNCHANGED <<all_timeouts_initialized, portal_vars>>

\* enable_timeout_at(id, fin_time), after its disable_alarm().
enable_timeout_at ==
    /\ At("enable_timeout_at", "body")
    /\ \E id \in TimeoutId, fin_time \in Times :
         /\ Registered(id)
         /\ LET now == clock
                m == enable_timeout(CurMux, id, now, fin_time)
            IN  /\ SetMux(m)
                /\ stack' = ScheduleOrReturn(m, now)
                /\ ev' = Event("enable", id, fin_time, all_timeouts[id].active)
    /\ UNCHANGED <<clock, alarm_enabled, itimer, sigpending>>
    /\ UNCHANGED <<all_timeouts_initialized, portal_vars>>

\* enable_timeouts(timeouts, count): the clock is read once, before the loop.
enable_timeouts ==
    /\ At("enable_timeouts", "body")
    /\ stack' = ReplaceTop([Top EXCEPT !.pc = "for", !.now = clock])
    /\ ev' = Event("step", NoId, 0, FALSE)
    /\ UNCHANGED <<clock, all_timeouts, active_timeouts, alarm_enabled, itimer,
                   sigpending>>
    /\ UNCHANGED <<all_timeouts_initialized, portal_vars>>

\* The request types of EnableTimeoutParams.
TimeoutType == {"TMPARAM_AFTER", "TMPARAM_AT"}

\* The fin_time of one request of enable_timeouts.
RequestFinTime(now, type, val) ==
    IF type = "TMPARAM_AFTER" THEN TimestampTzPlusMilliseconds(now, val) ELSE val

\* EnableTimeoutParams: val is delay_ms or fin_time, as the type says.
EnableTimeoutParams == [id : TimeoutId, type : TimeoutType, val : Times]

\* The body of the loop of enable_timeouts for the request timeouts[i].
EnableRequest(m, now, req) ==
    enable_timeout(m, req.id, now, RequestFinTime(now, req.type, req.val))

\* A loop of enable_timeouts that stops before the last request.
RECURSIVE EnableTimeoutsLoop_SkipsLast(_, _, _, _)
EnableTimeoutsLoop_SkipsLast(m, now, timeouts, i) ==
    IF i >= Len(timeouts) THEN m
    ELSE EnableTimeoutsLoop_SkipsLast(EnableRequest(m, now, timeouts[i]), now,
                                      timeouts, i + 1)

\* for (i = 0; i < count; i++) of enable_timeouts, from the request at
\* position i (the first is at 1) on.
RECURSIVE EnableTimeoutsLoop(_, _, _, _)
EnableTimeoutsLoop(m, now, timeouts, i) ==
    IF i > Len(timeouts) THEN m
    ELSE EnableTimeoutsLoop(EnableRequest(m, now, timeouts[i]), now,
                            timeouts, i + 1)

\* What a function that ends in schedule_alarm(now) leaves: the reason table
\* and the queue, the number of calls of setitimer so far, and the interval
\* of the last one.
Scheduled(r, m, now) ==
    IF Len(m.act) > 0
    THEN [m |-> m, arms |-> r.arms + 1,
          delta |-> AlarmInterval(now, m.all[m.act[1]].fin_time)]
    ELSE [r EXCEPT !.m = m]

\* The state of the multiplexer before a sequence of calls.
Unscheduled(m) == [m |-> m, arms |-> 0, delta |-> 0]

\* enable_timeouts(timeouts, count) as one function of the clock it reads.
EnableTimeoutsCall(m, now, timeouts) ==
    Scheduled(Unscheduled(m), EnableTimeoutsLoop(m, now, timeouts, 1), now)

\* enable_timeout_after(id, delay_ms) as one function of the clock it reads.
EnableTimeoutAfterCall(r, now, id, delay_ms) ==
    Scheduled(r, enable_timeout(r.m, id, now,
                                TimestampTzPlusMilliseconds(now, delay_ms)),
              now)

\* enable_timeout_at(id, fin_time) as one function of the clock it reads.
EnableTimeoutAtCall(r, now, id, fin_time) ==
    Scheduled(r, enable_timeout(r.m, id, now, fin_time), now)

\* One pass of the loop of enable_timeouts: the request timeouts[i] is
\* queued; or i has reached count, and schedule_alarm(now) begins.
enable_timeouts_for ==
    /\ At("enable_timeouts", "for")
    /\ \/ /\ Top.i < MaxBatch
          /\ \E id \in TimeoutId, type \in TimeoutType, val \in Times :
               /\ Registered(id)
               /\ RequestFinTime(Top.now, type, val) <= MaxTime
               /\ SetMux(EnableRequest(CurMux, Top.now,
                                        [id |-> id, type |-> type, val |-> val]))
               /\ stack' = ReplaceTop([Top EXCEPT !.i = @ + 1])
               /\ ev' = Event("enable", id, RequestFinTime(Top.now, type, val),
                              all_timeouts[id].active)
       \/ /\ stack' = ScheduleOrReturn(CurMux, Top.now)
          /\ ev' = Event("step", NoId, 0, FALSE)
          /\ UNCHANGED <<all_timeouts, active_timeouts>>
    /\ UNCHANGED <<clock, alarm_enabled, itimer, sigpending>>
    /\ UNCHANGED <<all_timeouts_initialized, portal_vars>>

\* An error exit of enable_timeouts that goes through enable_alarm().
enable_timeouts_error_EnablesAlarm ==
    /\ At("enable_timeouts", "for")
    /\ Len(stack) = 1
    /\ Top.i < MaxBatch
    /\ stack' = <<>>
    /\ alarm_enabled' = TRUE
    /\ ev' = Event("ERROR", NoId, Top.i, FALSE)
    /\ UNCHANGED <<clock, all_timeouts, active_timeouts, itimer, sigpending>>
    /\ UNCHANGED <<all_timeouts_initialized, portal_vars>>

\* The default branch of the switch of enable_timeouts: timeouts[i] is of no
\* known type and elog(ERROR) leaves the function, and mainline with it, for
\* the error recovery of the caller.
enable_timeouts_error ==
    /\ At("enable_timeouts", "for")
    /\ Len(stack) = 1
    /\ Top.i < MaxBatch
    /\ stack' = <<>>
    /\ ev' = Event("ERROR", NoId, Top.i, FALSE)
    /\ UNCHANGED <<clock, all_timeouts, active_timeouts, alarm_enabled, itimer,
                   sigpending>>
    /\ UNCHANGED <<all_timeouts_initialized, portal_vars>>

\* A disable_timeout that resets the indicator whatever keep_indicator says.
DisableOne_AlwaysResets(m, id, keep_indicator) ==
    LET m1 == RemoveIfActive(m, id)
    IN  Mux([m1.all EXCEPT ![id].indicator = FALSE], m1.act)

\* disable_timeout(id, keep_indicator) up to its test of num_active_timeouts.
DisableOne(m, id, keep_indicator) ==
    LET m1 == RemoveIfActive(m, id)
    IN  IF keep_indicator THEN m1
        ELSE Mux([m1.all EXCEPT ![id].indicator = FALSE], m1.act)

\* DisableTimeoutParams.
DisableTimeoutParams == [id : TimeoutId, keep_indicator : BOOLEAN]

\* for (i = 0; i < count; i++) of disable_timeouts.
RECURSIVE DisableTimeoutsLoop(_, _, _)
DisableTimeoutsLoop(m, timeouts, i) ==
    IF i > Len(timeouts) THEN m
    ELSE DisableTimeoutsLoop(
             DisableOne(m, timeouts[i].id, timeouts[i].keep_indicator),
             timeouts, i + 1)

\* disable_timeouts(timeouts, count) as one function of the clock it reads.
DisableTimeoutsCall(m, now, timeouts) ==
    Scheduled(Unscheduled(m), DisableTimeoutsLoop(m, timeouts, 1), now)

\* disable_timeout(id, keep_indicator) as one function of the clock it reads.
DisableTimeoutCall(r, now, id, keep_indicator) ==
    Scheduled(r, DisableOne(r.m, id, keep_indicator), now)

\* disable_timeout(id, keep_indicator), after its disable_alarm().
disable_timeout ==
    /\ At("disable_timeout", "body")
    /\ \E id \in TimeoutId, keep_indicator \in BOOLEAN :
         /\ Registered(id)
         /\ LET m == DisableOne(CurMux, id, keep_indicator)
            IN  /\ SetMux(m)
                /\ stack' = ScheduleOrReturn(m, clock)
                /\ ev' = Event("disable", id, 0, keep_indicator)
    /\ UNCHANGED <<clock, alarm_enabled, itimer, sigpending>>
    /\ UNCHANGED <<all_timeouts_initialized, portal_vars>>

\* disable_timeouts(timeouts, count), after its disable_alarm(): one pass of
\* its loop, or, when i has reached count, the rescheduling.
disable_timeouts ==
    /\ At("disable_timeouts", "body")
    /\ \/ /\ Top.i < MaxBatch
          /\ \E id \in TimeoutId, keep_indicator \in BOOLEAN :
               /\ Registered(id)
               /\ SetMux(DisableOne(CurMux, id, keep_indicator))
               /\ stack' = ReplaceTop([Top EXCEPT !.i = @ + 1])
               /\ ev' = Event("disable", id, 0, keep_indicator)
       \/ /\ stack' = ScheduleOrReturn(CurMux, clock)
          /\ ev' = Event("step", NoId, 0, FALSE)
          /\ UNCHANGED <<all_timeouts, active_timeouts>>
    /\ UNCHANGED <<clock, alarm_enabled, itimer, sigpending>>
    /\ UNCHANGED <<all_timeouts_initialized, portal_vars>>

\* A disable_all_timeouts that resets the indicators of the active reasons only.
DisableAll_ActiveOnly(all, keep_indicators) ==
    [id \in TimeoutId |->
        [all[id] EXCEPT !.active = FALSE,
                        !.indicator = IF keep_indicators \/ ~all[id].active
                                      THEN @ ELSE FALSE]]

\* What disable_all_timeouts(keep_indicators) leaves in the reason table.
DisableAll(all, keep_indicators) ==
    [id \in TimeoutId |->
        [all[id] EXCEPT !.active = FALSE,
                        !.indicator = IF keep_indicators THEN @ ELSE FALSE]]

\* disable_all_timeouts(keep_indicators), after its disable_alarm().
disable_all_timeouts ==
    /\ At("disable_all_timeouts", "body")
    /\ \E keep_indicators \in BOOLEAN :
         /\ all_timeouts' = DisableAll(all_timeouts, keep_indicators)
         /\ ev' = Event("disable_all", NoId, num_active_timeouts, keep_indicators)
    /\ itimer' = IF num_active_timeouts > 0 THEN Setitimer(0) ELSE itimer
    /\ active_timeouts' = <<>>
    /\ stack' = Pop
    /\ UNCHANGED <<clock, alarm_enabled, sigpending>>
    /\ UNCHANGED <<all_timeouts_initialized, portal_vars>>

\* reschedule_timeouts() called before InitializeTimeouts(): it returns at
\* once.
reschedule_timeouts_uninitialized ==
    /\ Running
    /\ stack = <<>>
    /\ ~all_timeouts_initialized
    /\ ev' = Event("reschedule_uninitialized", NoId, 0, FALSE)
    /\ UNCHANGED <<clock, all_timeouts, active_timeouts, alarm_enabled, itimer,
                   sigpending, stack, all_timeouts_initialized, portal_vars>>

\* reschedule_timeouts(), after its disable_alarm().
reschedule_timeouts ==
    /\ At("reschedule_timeouts", "body")
    /\ stack' = ScheduleOrReturn(CurMux, clock)
    /\ ev' = Event("reschedule", NoId, 0, FALSE)
    /\ UNCHANGED <<clock, all_timeouts, active_timeouts, alarm_enabled, itimer,
                   sigpending>>
    /\ UNCHANGED <<all_timeouts_initialized, portal_vars>>

\* A get_timeout_indicator that resets whatever reset_indicator says.
IndicatorAfterGet_AlwaysResets(all, id, reset_indicator) ==
    [all EXCEPT ![id].indicator = FALSE]

\* get_timeout_indicator(id, reset_indicator): the reason table it leaves.
IndicatorAfterGet(all, id, reset_indicator) ==
    IF all[id].indicator /\ reset_indicator
    THEN [all EXCEPT ![id].indicator = FALSE]
    ELSE all

\* get_timeout_indicator(id, reset_indicator), called from mainline; ev keeps
\* the value returned.
get_timeout_indicator ==
    /\ Running
    /\ all_timeouts_initialized
    /\ stack = <<>>
    /\ \E id \in TimeoutId, reset_indicator \in BOOLEAN :
         /\ all_timeouts' = IndicatorAfterGet(all_timeouts, id, reset_indicator)
         /\ ev' = Event(IF reset_indicator THEN "get_indicator_reset"
                        ELSE "get_indicator", id, 0, all_timeouts[id].indicator)
    /\ UNCHANGED <<clock, active_timeouts, alarm_enabled, itimer, sigpending, stack>>
    /\ UNCHANGED <<all_timeouts_initialized, portal_vars>>

\* ================================================================ portalmem.c

\* Addresses of portal structs; NULL is 0.
PortalAddr == 1 .. MaxPortals

NULL == 0

\* Portal names; a struct not in the table has no name.
PortalName == 1 .. MaxNames

InvalidSubTransactionId == 0

TopSubTransactionId == 1

PortalStatus ==
    {"PORTAL_NEW", "PORTAL_DEFINED", "PORTAL_READY", "PORTAL_ACTIVE",
     "PORTAL_DONE", "PORTAL_FAILED"}

\* Memory of PortalMemory that holds no portal.  cursorOptions is the
\* CURSOR_OPT_HOLD bit, stmts tells that the list is not NIL; cleanup_calls
\* and persisted count the calls of the cleanup hook and of
\* PersistHoldablePortal, and cplan_refs is the reference count that the
\* cached plan given to the portal at this address has on the portal's
\* account.
FreePortal ==
    [allocated |-> FALSE, name |-> 0,
     status |-> "PORTAL_NEW", cleanup |-> FALSE,
     createSubid |-> InvalidSubTransactionId,
     activeSubid |-> InvalidSubTransactionId, portalPinned |-> FALSE,
     cursorOptions |-> FALSE, cplan |-> FALSE, resowner |-> FALSE,
     resowner_parent |-> InvalidSubTransactionId,
     holdStore |-> FALSE, cleanup_calls |-> 0, persisted |-> 0,
     visible |-> FALSE, stmts |-> FALSE, cplan_refs |-> 0]

\* The portal table and the portal structs, with the error raised, if any,
\* the value PreCommit_Portals returns, and the number of cleanup hooks the
\* function has called.  stale: code that may remove any entry of the table
\* has run since the hash_seq_init of the scan the function is in;
\* continued: hash_seq_search has been called on such a scan; restarts: the
\* number of times the function has begun its scan again.
PortalState(tab, mem) ==
    [tab |-> tab, mem |-> mem, err |-> "", result |-> FALSE, called |-> 0,
     stale |-> FALSE, continued |-> FALSE, restarts |-> 0]

\* A step of a function that may run user-defined code: a cleanup hook, the
\* executor in PersistHoldablePortal, PortalDrop.
UserCode(s) == [s EXCEPT !.stale = TRUE]

\* A loop that begins its scan again at every entry.
hash_seq_search_Restarts(s) ==
    [s EXCEPT !.continued = @ \/ s.stale, !.restarts = @ + 1]

\* hash_seq_search(&status) on the scan the loop is in.
hash_seq_search(s) == [s EXCEPT !.continued = @ \/ s.stale]

\* hash_seq_term(&status); hash_seq_init(&status, PortalHashTable);
hash_seq_init(s) == [s EXCEPT !.stale = FALSE, !.restarts = @ + 1]

Raise(s, err) == [s EXCEPT !.err = err]

\* No hook and no release of resources raises.
NoRaise == [cleanup |-> {}, release |-> {}]

\* The SQLSTATE of an error: the errcode() of its ereport(), and
\* ERRCODE_INTERNAL_ERROR for elog(ERROR) and for the errors of the hooks.
errcode(err) ==
    CASE err = "" -> ""
      [] err = "cursor already exists" -> "ERRCODE_DUPLICATE_CURSOR"
      [] err = "portal cannot be run" ->
             "ERRCODE_OBJECT_NOT_IN_PREREQUISITE_STATE"
      [] err = "cannot drop active portal" -> "ERRCODE_INVALID_CURSOR_STATE"
      [] err = "cannot PREPARE a transaction that has created a cursor WITH HOLD" ->
             "ERRCODE_FEATURE_NOT_SUPPORTED"
      [] OTHER -> "ERRCODE_INTERNAL_ERROR"

\* The static storage of portalmem.c after EnablePortalManager().
PortalInit ==
    /\ PortalHashTable = <<>>
    /\ portals = [a \in PortalAddr |-> FreePortal]
    /\ CurrentTransactionState =
           [blockState |-> "TBLOCK_DEFAULT", subids |-> <<>>,
            currentSubTransactionId |-> TopSubTransactionId]
    /\ unnamed_portal_count = 0
    /\ pev = [kind |-> "EnablePortalManager", portal |-> NULL, err |-> "",
              flag |-> FALSE]

\* The step labels kept in pev: the function that ran, the portal it was
\* called on, the error it raised, and a flag: of CreatePortal, that the name
\* was in use; of PortalDefineQuery, that a cached plan was given; of
\* PortalStart, the HOLD option; of PreCommit_Portals, isPrepare; of the
\* cleanup hooks and of PortalHashTableDeleteAll, that a portal was dropped.
PortalEvent(kind, portal, err, flag) ==
    [kind |-> kind, portal |-> portal, err |-> err, flag |-> flag]

\* hash_search(.., HASH_FIND, ..): the position of the entry of name, 0 if
\* there is none.
RECURSIVE HashFindFrom(_, _, _)
HashFindFrom(tab, name, i) ==
    IF i > Len(tab) THEN 0
    ELSE IF tab[i].portalname = name THEN i
    ELSE HashFindFrom(tab, name, i + 1)

PortalHashTableLookup(tab, name) ==
    LET i == HashFindFrom(tab, name, 1)
    IN  IF i = 0 THEN NULL ELSE tab[i].portal

GetPortalByName(name) == PortalHashTableLookup(PortalHashTable, name)

\* PortalHashTableInsert(PORTAL, NAME).
PortalHashTableInsert(s, portal, name) ==
    IF HashFindFrom(s.tab, name, 1) # 0
    THEN Raise(s, "duplicate portal name")
    ELSE [s EXCEPT !.tab = Append(@, [portalname |-> name, portal |-> portal]),
                   !.mem[portal].name = name]

\* A PortalHashTableDelete that removes nothing.
HashRemove_Nothing(tab, name) == tab

\* hash_search(.., HASH_REMOVE, ..).
HashRemove(tab, name) == SelectSeq(tab, LAMBDA e : e.portalname # name)

\* PortalHashTableDelete(PORTAL).
PortalHashTableDelete(s, portal) ==
    [s EXCEPT !.tab = HashRemove(@, s.mem[portal].name)]

\* MemoryContextAllocZero(PortalMemory, ..): the lowest free address.
AllocAddr(mem) ==
    IF \E a \in PortalAddr : ~mem[a].allocated
    THEN CHOOSE a \in PortalAddr :
             /\ ~mem[a].allocated
             /\ \A b \in PortalAddr : ~mem[b].allocated => a <= b
    ELSE NULL

\* A return from the cleanup hook that leaves the hook in place.
HookReturned_KeepsHook(s, portal) == s

\* portal->cleanup = NULL; after the hook has returned.
HookReturned(s, portal) == [s EXCEPT !.mem[portal].cleanup = FALSE]

\* (*portal->cleanup) (portal); portal->cleanup = NULL; for a portal whose
\* cleanup is set.  The hooks of the portals in raises exit by elog(ERROR),
\* and the assignment is not reached.
CallCleanup(s, portal, raises) ==
    IF ~s.mem[portal].cleanup THEN s
    ELSE LET called == [UserCode(s) EXCEPT !.called = @ + 1,
                                 !.mem[portal].cleanup_calls =
                                      IF @ < MaxCalls THEN @ + 1 ELSE @]
         IN  IF portal \in raises.cleanup
             THEN Raise(called, "cleanup")
             ELSE HookReturned(called, portal)

\* A PortalReleaseCachedPlan that does not test whether there is a plan.
PortalReleaseCachedPlan_Untested(s, portal) ==
    [s EXCEPT !.mem[portal].cplan_refs = @ - 1,
              !.mem[portal].cplan = FALSE,
              !.mem[portal].stmts = FALSE]

\* PortalReleaseCachedPlan(portal).
PortalReleaseCachedPlan(s, portal) ==
    IF s.mem[portal].cplan
    THEN [s EXCEPT !.mem[portal].cplan_refs = @ - 1,
                   !.mem[portal].cplan = FALSE,
                   !.mem[portal].stmts = FALSE]
    ELSE s

\* A MarkPortalActive that does not test the status.
StatusAllowsActive_Always(status) == TRUE

\* The test of MarkPortalActive.
StatusAllowsActive(status) == status = "PORTAL_READY"

\* A MarkPortalActive that leaves activeSubid as it is.
MarkPortalActive_KeepsSubid(s, portal, subid) ==
    IF ~StatusAllowsActive(s.mem[portal].status)
    THEN Raise(s, "portal cannot be run")
    ELSE [s EXCEPT !.mem[portal].status = "PORTAL_ACTIVE"]

\* MarkPortalActive(portal) in the subtransaction subid.
MarkPortalActive(s, portal, subid) ==
    IF ~StatusAllowsActive(s.mem[portal].status)
    THEN Raise(s, "portal cannot be run")
    ELSE [s EXCEPT !.mem[portal].status = "PORTAL_ACTIVE",
                   !.mem[portal].activeSubid = subid]

\* MarkPortalDone(portal).
MarkPortalDone(s, portal, raises) ==
    CallCleanup([s EXCEPT !.mem[portal].status = "PORTAL_DONE"], portal, raises)

\* MarkPortalFailed(portal); Assert(portal->status != PORTAL_DONE) stops the
\* process.
MarkPortalFailed(s, portal, raises) ==
    IF s.mem[portal].status = "PORTAL_DONE"
    THEN Raise(s, "TRAP: FailedAssertion")
    ELSE CallCleanup([s EXCEPT !.mem[portal].status = "PORTAL_FAILED"],
                     portal, raises)

\* A PortalDrop that refuses pinned portals only.
DropRefused_PinnedOnly(P) == P.portalPinned

\* "Don't allow dropping a pinned portal"; nor a running one.
DropRefused(P) == P.portalPinned \/ P.status = "PORTAL_ACTIVE"

\* The struct of a destroyed portal: pfree(portal), the count of the
\* references taken on its plan being kept.
PortalFree(s, portal) ==
    [s EXCEPT !.mem[portal] =
        [FreePortal EXCEPT !.cplan_refs = s.mem[portal].cplan_refs]]

\* PortalDrop calls ResourceOwnerRelease for a portal that has a resource
\* owner, except at the commit of the transaction for a portal that has not
\* failed.
ReleasesResources(P, isTopCommit) ==
    P.resowner /\ (~isTopCommit \/ P.status = "PORTAL_FAILED")

\* A PortalDrop that removes the hash table entry after it has released the
\* resources: an error in the release leaves the portal in the table.
InterruptedDrop_StillInTable(before, after, portal) ==
    [before EXCEPT !.mem = after.mem]

\* A PortalDrop left by an error in a step that follows PortalHashTableDelete:
\* before is the state before the hash table entry was removed, after the
\* state the error interrupts.  The struct is never freed and nothing in the
\* table points to it: it leaves the structs of the portal manager.
InterruptedDrop(before, after, portal) == PortalFree(after, portal)

\* PortalDrop(portal, isTopCommit).  The hooks of the portals in
\* raises.cleanup, and the release of the resources of the portals in
\* raises.release, exit by elog(ERROR).
PortalDrop(s, portal, isTopCommit, raises) ==
    IF DropRefused(s.mem[portal])
    THEN Raise(s, "cannot drop active portal")
    ELSE LET s1 == CallCleanup(UserCode(s), portal, raises)
         IN  IF s1.err # "" THEN s1
             ELSE LET s2 == PortalReleaseCachedPlan(
                                PortalHashTableDelete(s1, portal), portal)
                  IN  IF /\ portal \in raises.release
                         /\ ReleasesResources(s2.mem[portal], isTopCommit)
                      THEN Raise(InterruptedDrop(s1, s2, portal),
                                 "resource release")
                      ELSE PortalFree(s2, portal)

\* A CreatePortal that leaves the portal it finds under the name alone.
CreatePortal_KeepsOld(s, name, allowDup, subid, raises) ==
    LET old == PortalHashTableLookup(s.tab, name)
        s1 == IF old = NULL \/ allowDup THEN s
              ELSE Raise(s, "cursor already exists")
        portal == AllocAddr(s1.mem)
    IN  IF s1.err # "" \/ portal = NULL THEN s1
        ELSE PortalHashTableInsert(
                 [s1 EXCEPT !.mem[portal] =
                     [FreePortal EXCEPT
                         !.allocated = TRUE,
                         !.cleanup = TRUE,
                         !.visible = TRUE,
                         !.createSubid = subid,
                         !.activeSubid = subid,
                         !.resowner = TRUE,
                         !.resowner_parent = subid]],
                 portal, name)

\* CreatePortal(name, allowDup, dupSilent) in the subtransaction subid.
CreatePortal(s, name, allowDup, subid, raises) ==
    LET old == PortalHashTableLookup(s.tab, name)
        s1 == IF old = NULL THEN s
              ELSE IF ~allowDup THEN Raise(s, "cursor already exists")
              ELSE PortalDrop(s, old, FALSE, raises)
        portal == AllocAddr(s1.mem)
    IN  IF s1.err # "" THEN s1
        ELSE PortalHashTableInsert(
                 [s1 EXCEPT !.mem[portal] =
                     [FreePortal EXCEPT
                         !.allocated = TRUE,
                         !.cleanup = TRUE,
                         !.visible = TRUE,
                         !.createSubid = subid,
                         !.activeSubid = subid,
                         !.resowner = TRUE,
                         !.resowner_parent = subid]],
                 portal, name)

\* A materialization that keeps the reference to the cached plan.
HoldPortal_KeepsPlan(s, portal) ==
    [UserCode(s) EXCEPT !.mem[portal].holdStore = TRUE,
              !.mem[portal].persisted = IF @ < MaxCalls THEN @ + 1 ELSE @,
              !.mem[portal].resowner = FALSE,
              !.mem[portal].resowner_parent = InvalidSubTransactionId,
              !.mem[portal].createSubid = InvalidSubTransactionId,
              !.mem[portal].activeSubid = InvalidSubTransactionId,
              !.result = TRUE]

\* What PreCommit_Portals does to a holdable portal of the current
\* transaction: PortalCreateHoldStore, PersistHoldablePortal, and the
\* assignments that take the portal out of the transaction.
HoldPortal(s, portal) ==
    [PortalReleaseCachedPlan(UserCode(s), portal) EXCEPT
              !.mem[portal].holdStore = TRUE,
              !.mem[portal].persisted = IF @ < MaxCalls THEN @ + 1 ELSE @,
              !.mem[portal].resowner = FALSE,
              !.mem[portal].resowner_parent = InvalidSubTransactionId,
              !.mem[portal].createSubid = InvalidSubTransactionId,
              !.mem[portal].activeSubid = InvalidSubTransactionId,
              !.result = TRUE]

\* "Is it a holdable portal created in the current xact?"
IsHoldableHere(P) ==
    /\ P.cursorOptions
    /\ P.createSubid # InvalidSubTransactionId
    /\ P.status = "PORTAL_READY"

\* A PreCommit_Portals that materializes cursors at PREPARE too.
HoldRefused_Never(isPrepare) == FALSE

\* "if this is PREPARE TRANSACTION rather than COMMIT, refuse PREPARE".
HoldRefused(isPrepare) == isPrepare

\* A scan that goes on behind the entry it has changed.
RestartScan_GoesOn(i) == i + 1

\* hash_seq_term(&status); hash_seq_init(&status, PortalHashTable); the scan
\* starts again at the first entry.
RestartScan(i) == 1

\* The loop of PreCommit_Portals(isPrepare), from the i-th entry of the scan.
RECURSIVE PreCommitWalk(_, _, _, _)
PreCommitWalk(s, i, isPrepare, raises) ==
    IF i > Len(s.tab) THEN s
    ELSE LET portal == s.tab[i].portal
             P == s.mem[portal]
         IN  IF P.portalPinned
             THEN Raise(s, "cannot commit while a portal is pinned")
             ELSE IF P.status = "PORTAL_ACTIVE"
             THEN PreCommitWalk(
                      hash_seq_search(
                          [s EXCEPT !.mem[portal].resowner = FALSE,
                                    !.mem[portal].resowner_parent =
                                        InvalidSubTransactionId]),
                      i + 1, isPrepare, raises)
             ELSE IF IsHoldableHere(P)
             THEN IF HoldRefused(isPrepare)
                  THEN Raise(s, "cannot PREPARE a transaction that has created a cursor WITH HOLD")
                  ELSE PreCommitWalk(hash_seq_init(HoldPortal(s, portal)),
                                     RestartScan(i), isPrepare, raises)
             ELSE IF P.createSubid = InvalidSubTransactionId
             THEN PreCommitWalk(hash_seq_search(s), i + 1, isPrepare,
                                raises)
             ELSE LET s1 == PortalDrop(s, portal, TRUE, raises)
                  IN  IF s1.err # "" THEN s1
                      ELSE PreCommitWalk(
                               hash_seq_init([s1 EXCEPT !.result = TRUE]),
                               RestartScan(i), isPrepare, raises)

\* A PortalHashTableDeleteAll that leaves ready portals too.
SkippedByDeleteAll_Ready(P) == P.status \in {"PORTAL_ACTIVE", "PORTAL_READY"}

\* "Can't close the active portal (the one running the command)".
SkippedByDeleteAll(P) == P.status = "PORTAL_ACTIVE"

\* The loop of PortalHashTableDeleteAll().
RECURSIVE DeleteAllWalk(_, _, _)
DeleteAllWalk(s, i, raises) ==
    IF i > Len(s.tab) THEN s
    ELSE LET portal == s.tab[i].portal
         IN  IF SkippedByDeleteAll(s.mem[portal])
             THEN DeleteAllWalk(hash_seq_search(s), i + 1, raises)
             ELSE LET s1 == PortalDrop(s, portal, FALSE, raises)
                  IN  IF s1.err # "" THEN s1
                      ELSE DeleteAllWalk(hash_seq_init(s1), RestartScan(i),
                                         raises)

\* An abort that marks a PORTAL_READY portal of the (sub)transaction failed
\* before the rest.
AbortPortal_FailsReady(s, portal, raises) ==
    LET s0 == IF s.mem[portal].status = "PORTAL_READY"
              THEN MarkPortalFailed(s, portal, raises) ELSE s
        s1 == CallCleanup(s0, portal, raises)
    IN  IF s1.err # "" THEN s1
        ELSE [PortalReleaseCachedPlan(s1, portal) EXCEPT
                 !.mem[portal].resowner = FALSE,
                 !.mem[portal].resowner_parent = InvalidSubTransactionId]

\* What AtAbort_Portals and AtSubAbort_Portals do to a portal of the failed
\* (sub)transaction after the test of its status.
AbortPortal(s, portal, raises) ==
    LET s1 == CallCleanup(s, portal, raises)
    IN  IF s1.err # "" THEN s1
        ELSE [PortalReleaseCachedPlan(s1, portal) EXCEPT
                 !.mem[portal].resowner = FALSE,
                 !.mem[portal].resowner_parent = InvalidSubTransactionId]

\* An abort that marks failed the portals that have run to the end too.
FailIfActive_OrDone(s, portal, raises) ==
    IF s.mem[portal].status \in {"PORTAL_ACTIVE", "PORTAL_DONE"}
    THEN MarkPortalFailed(s, portal, raises)
    ELSE s

\* An AtAbort_Portals that leaves running portals as they are.
FailIfActive_Never(s, portal, raises) == s

\* if (portal->status == PORTAL_ACTIVE) MarkPortalFailed(portal);
FailIfActive(s, portal, raises) ==
    IF s.mem[portal].status = "PORTAL_ACTIVE"
    THEN MarkPortalFailed(s, portal, raises)
    ELSE s

\* The loop of AtAbort_Portals().
RECURSIVE AtAbortWalk(_, _, _)
AtAbortWalk(s, i, raises) ==
    IF i > Len(s.tab) THEN s
    ELSE LET portal == s.tab[i].portal
             s1 == FailIfActive(s, portal, raises)
         IN  IF s1.err # "" THEN s1
             ELSE IF s1.mem[portal].createSubid = InvalidSubTransactionId
             THEN AtAbortWalk(hash_seq_search(s1), i + 1, raises)
             ELSE LET s2 == AbortPortal(s1, portal, raises)
                  IN  IF s2.err # "" THEN s2
                      ELSE AtAbortWalk(hash_seq_search(s2), i + 1, raises)

\* A cleanup that unpins the portal and drops it with its cleanup hook.
CleanupPortal_RunsHook(s, portal) ==
    PortalDrop([s EXCEPT !.mem[portal].portalPinned = FALSE],
               portal, FALSE, NoRaise)

\* What AtCleanup_Portals and AtSubCleanup_Portals do to a portal of the
\* failed (sub)transaction: unpin, forget the cleanup hook, drop.
CleanupPortal(s, portal) ==
    PortalDrop([s EXCEPT !.mem[portal].portalPinned = FALSE,
                         !.mem[portal].cleanup = FALSE],
               portal, FALSE, NoRaise)

\* An AtCleanup_Portals that drops the portals of earlier transactions too.
SkippedAtCleanup_Never(P) == FALSE

\* "Do nothing to cursors held over from a previous transaction".
SkippedAtCleanup(P) == P.createSubid = InvalidSubTransactionId

\* The loop of AtCleanup_Portals(); the scan goes on after the entry it has
\* just deleted.
RECURSIVE AtCleanupWalk(_, _)
AtCleanupWalk(s, i) ==
    IF i > Len(s.tab) THEN s
    ELSE LET portal == s.tab[i].portal
         IN  IF SkippedAtCleanup(s.mem[portal])
             THEN AtCleanupWalk(hash_seq_search(s), i + 1)
             ELSE LET s1 == CleanupPortal(s, portal)
                  IN  IF s1.err # "" THEN s1
                      ELSE AtCleanupWalk(hash_seq_search(s1), i)

\* An AtSubCommit_Portals that reassigns the portals created in the
\* subtransaction and not those used in it.
AtSubCommitWalk_CreatedOnly(s, mySubid, parentSubid, parentXactOwner) ==
    [s EXCEPT !.mem = [a \in PortalAddr |->
        IF \E i \in 1 .. Len(s.tab) : s.tab[i].portal = a
        THEN [s.mem[a] EXCEPT
                 !.resowner_parent =
                     IF s.mem[a].createSubid = mySubid /\ s.mem[a].resowner
                     THEN parentXactOwner ELSE @,
                 !.createSubid = IF @ = mySubid THEN parentSubid ELSE @]
        ELSE s.mem[a]]]

\* The loop of AtSubCommit_Portals(mySubid, parentSubid, parentXactOwner).
\* A resource owner is named by the subtransaction it belongs to.
AtSubCommitWalk(s, mySubid, parentSubid, parentXactOwner) ==
    [s EXCEPT !.mem = [a \in PortalAddr |->
        IF \E i \in 1 .. Len(s.tab) : s.tab[i].portal = a
        THEN [s.mem[a] EXCEPT
                 !.resowner_parent =
                     IF s.mem[a].createSubid = mySubid /\ s.mem[a].resowner
                     THEN parentXactOwner ELSE @,
                 !.createSubid = IF @ = mySubid THEN parentSubid ELSE @,
                 !.activeSubid = IF @ = mySubid THEN parentSubid ELSE @]
        ELSE s.mem[a]]]

\* An AtSubAbort_Portals that takes the resource owner of every upper-level
\* portal used in the subtransaction, failed or not.
ReattachFailed_AnyStatus(s, portal, myXactOwner) ==
    IF s.mem[portal].resowner
    THEN [s EXCEPT !.mem[portal].resowner = FALSE,
                   !.mem[portal].resowner_parent = myXactOwner]
    ELSE s

\* if (portal->status == PORTAL_FAILED && portal->resowner)
\* { ResourceOwnerNewParent(portal->resowner, myXactOwner);
\*   portal->resowner = NULL; }
\* resowner_parent goes on naming the parent of the owner the portal had.
ReattachFailed(s, portal, myXactOwner) ==
    IF s.mem[portal].status = "PORTAL_FAILED" /\ s.mem[portal].resowner
    THEN [s EXCEPT !.mem[portal].resowner = FALSE,
                   !.mem[portal].resowner_parent = myXactOwner]
    ELSE s

\* The loop of AtSubAbort_Portals(mySubid, parentSubid, myXactOwner, ..).
RECURSIVE AtSubAbortWalk(_, _, _, _, _, _)
AtSubAbortWalk(s, i, mySubid, parentSubid, myXactOwner, raises) ==
    IF i > Len(s.tab) THEN s
    ELSE LET portal == s.tab[i].portal
             P == s.mem[portal]
         IN  IF P.createSubid # mySubid
             THEN IF P.activeSubid = mySubid
                  THEN LET s1 == FailIfActive(
                                   [s EXCEPT !.mem[portal].activeSubid = parentSubid],
                                   portal, raises)
                           s2 == ReattachFailed(s1, portal, myXactOwner)
                       IN  IF s1.err # "" THEN s1
                           ELSE AtSubAbortWalk(hash_seq_search(s2), i + 1,
                                               mySubid, parentSubid,
                                               myXactOwner, raises)
                  ELSE AtSubAbortWalk(hash_seq_search(s), i + 1, mySubid,
                                      parentSubid, myXactOwner, raises)
             ELSE LET s1 == FailIfActive(s, portal, raises)
                      s2 == AbortPortal(s1, portal, raises)
                  IN  IF s1.err # "" THEN s1
                      ELSE IF s2.err # "" THEN s2
                      ELSE AtSubAbortWalk(hash_seq_search(s2), i + 1,
                                          mySubid, parentSubid,
                                          myXactOwner, raises)

\* An AtSubCleanup_Portals that keeps only the cursors held over from
\* earlier transactions.
SkippedAtSubCleanup_HeldOnly(P, mySubid) ==
    P.createSubid = InvalidSubTransactionId

\* if (portal->createSubid != mySubid) continue;
SkippedAtSubCleanup(P, mySubid) == P.createSubid # mySubid

\* The loop of AtSubCleanup_Portals(mySubid).
RECURSIVE AtSubCleanupWalk(_, _, _)
AtSubCleanupWalk(s, i, mySubid) ==
    IF i > Len(s.tab) THEN s
    ELSE LET portal == s.tab[i].portal
         IN  IF SkippedAtSubCleanup(s.mem[portal], mySubid)
             THEN AtSubCleanupWalk(hash_seq_search(s), i + 1, mySubid)
             ELSE LET s1 == CleanupPortal(s, portal)
                  IN  IF s1.err # "" THEN s1
                      ELSE AtSubCleanupWalk(hash_seq_search(s1), i, mySubid)

\* ------------------------------------------------ portal operations

\* GetCurrentSubTransactionId().
GetCurrentSubTransactionId ==
    CurrentTransactionState.subids[Len(CurrentTransactionState.subids)]

\* Commands run, and call the portal functions, in a transaction in
\* progress.
InProgress == CurrentTransactionState.blockState = "TBLOCK_INPROGRESS"

\* The command that ends a failed (sub)transaction is bound to a portal
\* while the transaction waits for it; the portals the abort has been
\* through, which have no resource owner, are not defined or started then.
Failed ==
    CurrentTransactionState.blockState \in {"TBLOCK_ABORT", "TBLOCK_SUBABORT"}

\* A command creates, defines and starts its portal without running other
\* commands in between: while a portal is new or defined, the calls that are
\* made are about that portal.
UnderConstruction(portal) ==
    /\ portals[portal].allocated
    /\ portals[portal].status \in {"PORTAL_NEW", "PORTAL_DEFINED"}

BetweenCommands ==
    /\ InProgress
    /\ \A a \in PortalAddr : ~UnderConstruction(a)

\* The portals a caller can hold a pointer to.
LivePortal(portal) == portals[portal].allocated

CurPortals == PortalState(PortalHashTable, portals)

\* The cleanup hooks, and the releases of a portal's resources, that may exit
\* by elog(ERROR) when called.
MayRaise ==
    [cleanup : SUBSET {a \in PortalAddr :
                          portals[a].allocated /\ portals[a].cleanup},
     release : SUBSET {a \in PortalAddr :
                          portals[a].allocated /\ portals[a].resowner}]

\* The same for a function that reaches the hook and the resources of one
\* portal only (NULL: of none).
MayRaiseOf(portal) ==
    [cleanup : SUBSET {a \in PortalAddr :
                          a = portal /\ portals[a].allocated /\ portals[a].cleanup},
     release : SUBSET {a \in PortalAddr :
                          a = portal /\ portals[a].allocated /\ portals[a].resowner}]

\* The same for a function that calls the hook of one portal and releases
\* nothing.
HookMayRaise(portal) ==
    [cleanup : SUBSET {a \in PortalAddr :
                          a = portal /\ portals[a].allocated /\ portals[a].cleanup},
     release : {{}}]

\* The state a portal function leaves; an elog(ERROR) leaves the transaction
\* to be aborted.
Return(s, kind, portal, flag) ==
    /\ PortalHashTable' = s.tab
    /\ portals' = s.mem
    /\ pev' = PortalEvent(kind, portal, s.err, flag)
    /\ CurrentTransactionState' =
           IF s.err # ""
           THEN [CurrentTransactionState EXCEPT !.blockState = "ERROR"]
           ELSE CurrentTransactionState
    /\ UNCHANGED <<unnamed_portal_count, timeout_vars>>

\* CreatePortal(name, allowDup, dupSilent).
CreatePortalCall ==
    /\ InProgress \/ Failed
    /\ \A a \in PortalAddr : ~UnderConstruction(a)
    /\ \E name \in PortalName, allowDup \in BOOLEAN :
       \E raises \in MayRaiseOf(GetPortalByName(name)) :
         /\ GetPortalByName(name) # NULL \/ AllocAddr(portals) # NULL
         /\ LET s == CreatePortal(CurPortals, name, allowDup,
                                  GetCurrentSubTransactionId, raises)
            IN  Return(s, "CreatePortal", PortalHashTableLookup(s.tab, name),
                       GetPortalByName(name) # NULL)

\* PortalDefineQuery(portal, .., cplan), called on a new portal.
PortalDefineQuery ==
    /\ InProgress \/ Failed
    /\ \E portal \in PortalAddr, cplan \in BOOLEAN :
         /\ LivePortal(portal)
         /\ portals[portal].status = "PORTAL_NEW"
         /\ Failed => portals[portal].resowner
         /\ Return([CurPortals EXCEPT
                        !.mem[portal].stmts = TRUE,
                        !.mem[portal].cplan = cplan,
                        !.mem[portal].cplan_refs = IF cplan THEN 1 ELSE 0,
                        !.mem[portal].status = "PORTAL_DEFINED"],
                   "PortalDefineQuery", portal, cplan)

\* The caller sets the cursor options of a defined portal and PortalStart()
\* makes it ready.  No cursor is declared in a failed transaction.
PortalStart ==
    /\ InProgress \/ Failed
    /\ \E portal \in PortalAddr, hold \in BOOLEAN :
         /\ LivePortal(portal)
         /\ portals[portal].status = "PORTAL_DEFINED"
         /\ Failed => portals[portal].resowner
         /\ hold => InProgress
         /\ Return([CurPortals EXCEPT !.mem[portal].cursorOptions = hold,
                                      !.mem[portal].status = "PORTAL_READY"],
                   "PortalStart", portal, hold)

\* PinPortal(portal), called by PL/pgSQL on the cursor of a loop, which is
\* not a holdable one.
PinPortal ==
    /\ BetweenCommands
    /\ \E portal \in PortalAddr :
         /\ LivePortal(portal)
         /\ portals[portal].status = "PORTAL_READY"
         /\ ~portals[portal].cursorOptions
         /\ Return(IF portals[portal].portalPinned
                   THEN Raise(CurPortals, "portal already pinned")
                   ELSE [CurPortals EXCEPT !.mem[portal].portalPinned = TRUE],
                   "PinPortal", portal, FALSE)

\* UnpinPortal(portal).
UnpinPortal ==
    /\ BetweenCommands
    /\ \E portal \in PortalAddr :
         /\ LivePortal(portal)
         /\ Return(IF ~portals[portal].portalPinned
                   THEN Raise(CurPortals, "portal not pinned")
                   ELSE [CurPortals EXCEPT !.mem[portal].portalPinned = FALSE],
                   "UnpinPortal", portal, FALSE)

\* MarkPortalActive(portal).
MarkPortalActiveCall ==
    /\ InProgress
    /\ \E portal \in PortalAddr :
         /\ LivePortal(portal)
         /\ Return(MarkPortalActive(CurPortals, portal, GetCurrentSubTransactionId),
                   "MarkPortalActive", portal, FALSE)

\* MarkPortalDone(portal), called on the portal that has run.
MarkPortalDoneCall ==
    /\ BetweenCommands
    /\ \E portal \in PortalAddr :
       \E raises \in HookMayRaise(portal) :
         /\ LivePortal(portal)
         /\ portals[portal].status = "PORTAL_ACTIVE"
         /\ Return(MarkPortalDone(CurPortals, portal, raises),
                   "MarkPortalDone", portal, FALSE)

\* MarkPortalFailed(portal), called by the code that has caught an error of
\* the portal and throws it on.
MarkPortalFailedCall ==
    /\ InProgress
    /\ \E portal \in PortalAddr :
       \E raises \in HookMayRaise(portal) :
         /\ LivePortal(portal)
         /\ portals[portal].status # "PORTAL_DONE"
         /\ Return(Raise(MarkPortalFailed(CurPortals, portal, raises), "rethrown"),
                   "MarkPortalFailed", portal, FALSE)

\* PortalDrop(portal, false), called by a command.
PortalDropCall ==
    /\ BetweenCommands
    /\ \E portal \in PortalAddr :
       \E raises \in MayRaiseOf(portal) :
         /\ LivePortal(portal)
         /\ Return(PortalDrop(CurPortals, portal, FALSE, raises),
                   "PortalDrop", portal, FALSE)

\* PortalHashTableDeleteAll().
PortalHashTableDeleteAll ==
    /\ BetweenCommands
    /\ \E raises \in MayRaise :
         LET s == DeleteAllWalk(CurPortals, 1, raises)
         IN  Return(s, "PortalHashTableDeleteAll", NULL,
                    Len(s.tab) < Len(PortalHashTable))

\* ------------------------------------------------ transaction hooks

\* The state a hook leaves, with the state of the transaction it leaves
\* when it raises no error.
ReturnHook(s, kind, flag, xact) ==
    /\ PortalHashTable' = s.tab
    /\ portals' = s.mem
    /\ pev' = PortalEvent(kind, NULL, s.err, flag)
    /\ CurrentTransactionState' =
           IF s.err # ""
           THEN [CurrentTransactionState EXCEPT !.blockState = "ERROR"]
           ELSE xact
    /\ UNCHANGED <<unnamed_portal_count, timeout_vars>>

NoTransaction ==
    [CurrentTransactionState EXCEPT !.blockState = "TBLOCK_DEFAULT",
                                    !.subids = <<>>]

\* StartTransaction().
StartTransaction ==
    /\ CurrentTransactionState.blockState = "TBLOCK_DEFAULT"
    /\ CurrentTransactionState' =
           [blockState |-> "TBLOCK_INPROGRESS",
            subids |-> <<TopSubTransactionId>>,
            currentSubTransactionId |-> TopSubTransactionId]
    /\ pev' = PortalEvent("StartTransaction", NULL, "", FALSE)
    /\ UNCHANGED <<PortalHashTable, portals, unnamed_portal_count, timeout_vars>>

\* StartSubTransaction().
StartSubTransaction ==
    /\ BetweenCommands
    /\ CurrentTransactionState.currentSubTransactionId < MaxSubXact
    /\ CurrentTransactionState' =
           [CurrentTransactionState EXCEPT
               !.subids = Append(@, CurrentTransactionState.currentSubTransactionId + 1),
               !.currentSubTransactionId = @ + 1]
    /\ pev' = PortalEvent("StartSubTransaction", NULL, "", FALSE)
    /\ UNCHANGED <<PortalHashTable, portals, unnamed_portal_count, timeout_vars>>

\* StartSubTransaction(), in a transaction whose subtransactions nest.
StartNestedSubTransaction ==
    /\ BetweenCommands
    /\ CurrentTransactionState.currentSubTransactionId < MaxNesting
    /\ CurrentTransactionState' =
           [CurrentTransactionState EXCEPT
               !.subids = Append(@, CurrentTransactionState.currentSubTransactionId + 1),
               !.currentSubTransactionId = @ + 1]
    /\ pev' = PortalEvent("StartSubTransaction", NULL, "", FALSE)
    /\ UNCHANGED <<PortalHashTable, portals, unnamed_portal_count, timeout_vars>>

\* The subtransaction below the innermost one.
ParentSubid ==
    CurrentTransactionState.subids[Len(CurrentTransactionState.subids) - 1]

InSubTransaction == Len(CurrentTransactionState.subids) > 1

PopSubTransaction(blockState) ==
    [CurrentTransactionState EXCEPT
        !.blockState = blockState,
        !.subids = SubSeq(@, 1, Len(@) - 1)]

\* A portal is running at commit only when it runs a utility command that
\* spans transactions, which is no cursor.
CommitAllowed ==
    \A a \in PortalAddr :
        portals[a].allocated /\ portals[a].status = "PORTAL_ACTIVE" =>
            ~portals[a].cursorOptions

\* One call of PreCommit_Portals(isPrepare) by CommitTransaction() or
\* PrepareTransaction(), which call it again as long as it returns true.
PreCommit_Portals ==
    /\ CurrentTransactionState.blockState \in
           {"TBLOCK_INPROGRESS", "TBLOCK_END", "TBLOCK_PREPARE"}
    /\ ~InSubTransaction
    /\ CommitAllowed
    /\ \E isPrepare \in BOOLEAN, raises \in MayRaise :
         /\ CurrentTransactionState.blockState = "TBLOCK_END" => ~isPrepare
         /\ CurrentTransactionState.blockState = "TBLOCK_PREPARE" => isPrepare
         /\ LET s == PreCommitWalk(CurPortals, 1, isPrepare, raises)
            IN  ReturnHook(s, "PreCommit_Portals", isPrepare,
                    IF s.result
                    THEN [CurrentTransactionState EXCEPT !.blockState =
                             IF isPrepare THEN "TBLOCK_PREPARE" ELSE "TBLOCK_END"]
                    ELSE NoTransaction)

\* AtAbort_Portals(), called by AbortTransaction().
AtAbort_Portals ==
    /\ CurrentTransactionState.blockState \in
           {"TBLOCK_INPROGRESS", "TBLOCK_END", "TBLOCK_PREPARE", "ERROR"}
    /\ ~InSubTransaction
    /\ ReturnHook(AtAbortWalk(CurPortals, 1, NoRaise), "AtAbort_Portals", FALSE,
                  [CurrentTransactionState EXCEPT !.blockState = "TBLOCK_ABORT"])

\* AtCleanup_Portals(), called by CleanupTransaction().
AtCleanup_Portals ==
    /\ CurrentTransactionState.blockState = "TBLOCK_ABORT"
    /\ LET s == AtCleanupWalk(CurPortals, 1)
       IN  ReturnHook(s, "AtCleanup_Portals",
                      Len(s.tab) < Len(PortalHashTable), NoTransaction)

\* AtSubCommit_Portals(mySubid, parentSubid, ..), called by
\* CommitSubTransaction().
AtSubCommit_Portals ==
    /\ BetweenCommands
    /\ InSubTransaction
    /\ ReturnHook(AtSubCommitWalk(CurPortals, GetCurrentSubTransactionId,
                                  ParentSubid, ParentSubid),
                  "AtSubCommit_Portals", FALSE,
                  PopSubTransaction("TBLOCK_INPROGRESS"))

\* AtSubAbort_Portals(mySubid, parentSubid, ..), called by
\* AbortSubTransaction().
AtSubAbort_Portals ==
    /\ CurrentTransactionState.blockState \in {"TBLOCK_INPROGRESS", "ERROR"}
    /\ InSubTransaction
    /\ ReturnHook(AtSubAbortWalk(CurPortals, 1, GetCurrentSubTransactionId,
                                 ParentSubid, GetCurrentSubTransactionId,
                                 NoRaise),
                  "AtSubAbort_Portals", FALSE,
                  [CurrentTransactionState EXCEPT !.blockState = "TBLOCK_SUBABORT"])

\* AtSubCleanup_Portals(mySubid), called by CleanupSubTransaction().
AtSubCleanup_Portals ==
    /\ CurrentTransactionState.blockState = "TBLOCK_SUBABORT"
    /\ LET s == AtSubCleanupWalk(CurPortals, 1, GetCurrentSubTransactionId)
       IN  ReturnHook(s, "AtSubCleanup_Portals",
                      Len(s.tab) < Len(PortalHashTable),
                      PopSubTransaction("TBLOCK_INPROGRESS"))

PortalNext ==
    \/ CreatePortalCall
    \/ PortalDefineQuery
    \/ PortalStart
    \/ PinPortal
    \/ UnpinPortal
    \/ MarkPortalActiveCall
    \/ MarkPortalDoneCall
    \/ MarkPortalFailedCall
    \/ PortalDropCall
    \/ PortalHashTableDeleteAll
    \/ StartTransaction
    \/ StartSubTransaction
    \/ PreCommit_Portals
    \/ AtAbort_Portals
    \/ AtCleanup_Portals
    \/ AtSubCommit_Portals
    \/ AtSubAbort_Portals
    \/ AtSubCleanup_Portals

\* A step that raises no error and leaves no portal with a cached plan.
Plain ==
    /\ pev'.err = ""
    /\ \A a \in PortalAddr : ~portals'[a].cplan

\* The portal functions and the hooks in transactions whose subtransactions
\* nest, ended by command and not by an error.
NestedNext ==
    \/ CreatePortalCall /\ Plain
    \/ PortalDefineQuery /\ Plain
    \/ PortalStart /\ Plain
    \/ PinPortal /\ Plain
    \/ MarkPortalActiveCall /\ Plain
    \/ MarkPortalDoneCall /\ Plain
    \/ PortalDropCall /\ Plain
    \/ StartTransaction
    \/ StartNestedSubTransaction
    \/ PreCommit_Portals /\ Plain
    \/ AtAbort_Portals
    \/ AtCleanup_Portals
    \/ AtSubCommit_Portals
    \/ AtSubAbort_Portals
    \/ AtSubCleanup_Portals

\* ------------------------------------------------ CreateNewPortal

\* sprintf(portalname, "<unnamed portal %u>", unnamed_portal_count): a name
\* for each value of the counter, none of them a name of PortalName.
UnnamedPortalName(n) == MaxNames + 1 + n

\* The names of the form "<unnamed portal N>", which a caller of
\* CreatePortal may pass too.
UnnamedPortalNames == {UnnamedPortalName(n) : n \in 0 .. UINT_MAX}

\* unnamed_portal_count++ on an unsigned int.
NextCount(count) == (count + 1) % (UINT_MAX + 1)

\* A choice of name that does not look the name up.
SelectName_NoLookup(tab, count) == NextCount(count)

\* "Select a nonconflicting name": the loop of CreateNewPortal, which returns
\* the value of the counter whose name is not in the table.  It does not end
\* when every name of the form is in the table.
RECURSIVE SelectName(_, _)
SelectName(tab, count) ==
    IF PortalHashTableLookup(tab, UnnamedPortalName(NextCount(count))) = NULL
    THEN NextCount(count)
    ELSE SelectName(tab, NextCount(count))

\* CreateNewPortal().  pev.flag: the first name tried was in the table.
CreateNewPortal ==
    /\ InProgress \/ Failed
    /\ \A a \in PortalAddr : ~UnderConstruction(a)
    /\ AllocAddr(portals) # NULL
    /\ \E name \in UnnamedPortalNames : GetPortalByName(name) = NULL
    /\ LET count == SelectName(PortalHashTable, unnamed_portal_count)
           portalname == UnnamedPortalName(count)
           s == CreatePortal(CurPortals, portalname, FALSE,
                             GetCurrentSubTransactionId, NoRaise)
       IN  /\ PortalHashTable' = s.tab
           /\ portals' = s.mem
           /\ unnamed_portal_count' = count
           /\ pev' = PortalEvent("CreateNewPortal",
                                 PortalHashTableLookup(s.tab, portalname),
                                 s.err,
                                 count # NextCount(unnamed_portal_count))
           /\ CurrentTransactionState' =
                  IF s.err # ""
                  THEN [CurrentTransactionState EXCEPT !.blockState = "ERROR"]
                  ELSE CurrentTransactionState
    /\ UNCHANGED timeout_vars

\* CreatePortal(name, false, ..) by a caller that passes a name of the form
\* "<unnamed portal N>".
CreatePortalUnnamedForm ==
    /\ InProgress \/ Failed
    /\ \A a \in PortalAddr : ~UnderConstruction(a)
    /\ \E name \in UnnamedPortalNames :
         /\ GetPortalByName(name) # NULL \/ AllocAddr(portals) # NULL
         /\ LET s == CreatePortal(CurPortals, name, FALSE,
                                  GetCurrentSubTransactionId, NoRaise)
            IN  Return(s, "CreatePortal", PortalHashTableLookup(s.tab, name),
                       GetPortalByName(name) # NULL)

\* The portal functions of a backend that creates portals by CreateNewPortal
\* and by names of its form.
UnnamedNext ==
    \/ CreateNewPortal
    \/ CreatePortalUnnamedForm
    \/ PortalDefineQuery /\ Plain
    \/ PortalStart /\ Plain
    \/ PortalDropCall /\ Plain
    \/ StartTransaction
    \/ PreCommit_Portals /\ Plain
    \/ AtAbort_Portals
    \/ AtCleanup_Portals

\* ------------------------------------------------------------------- Next

\* Every step but the one that passes enable_timeouts a request of no known
\* type.
ValidNext ==
    \/ InitializeTimeouts
    \/ reschedule_timeouts_uninitialized
    \/ Tick
    \/ TimerExpire
    \/ handle_sig_alarm
    \/ handle_sig_alarm_loop
    \/ timeout_handler_return
    \/ schedule_alarm_enable
    \/ schedule_alarm_setitimer
    \/ RegisterTimeout
    \/ disable_alarm
    \/ enable_timeout_after
    \/ enable_timeout_at
    \/ enable_timeouts
    \/ enable_timeouts_for
    \/ disable_timeout
    \/ disable_timeouts
    \/ disable_all_timeouts
    \/ reschedule_timeouts
    \/ get_timeout_indicator

Next ==
    \/ ValidNext
    \/ enable_timeouts_error
    \/ handle_sig_alarm_lost

Init == TimeoutInit /\ PortalInit

Spec == Init /\ [][Next]_vars

\* Code that has begun runs on: time passes, an armed timer expires, a
\* pending SIGALRM is delivered, and a function that has been called, or the
\* signal handler, takes its next step.  Nothing obliges mainline or a timeout
\* handler to make a call.
Progress ==
    /\ WF_vars(Tick)
    /\ WF_vars(TimerExpire)
    /\ WF_vars(handle_sig_alarm)
    /\ WF_vars(handle_sig_alarm_loop)
    /\ WF_vars(timeout_handler_return)
    /\ WF_vars(schedule_alarm_enable)
    /\ WF_vars(schedule_alarm_setitimer)
    /\ WF_vars(enable_timeout_after)
    /\ WF_vars(enable_timeout_at)
    /\ WF_vars(enable_timeouts)
    /\ WF_vars(enable_timeouts_for)
    /\ WF_vars(disable_timeout)
    /\ WF_vars(disable_timeouts)
    /\ WF_vars(disable_all_timeouts)
    /\ WF_vars(reschedule_timeouts)

\* The runs of the portal functions and the transaction hooks.
PortalSpec == Init /\ [][PortalNext]_vars

\* The runs of the portal functions in nested subtransactions.
NestedSpec == Init /\ [][NestedNext]_vars

\* The runs of a backend that creates portals by CreateNewPortal.
UnnamedSpec == Init /\ [][UnnamedNext]_vars

\* Every run, with progress.
RecoverySpec == Init /\ [][Next]_vars /\ Progress

\* The runs in which every request is of a known type and no SIGALRM is lost,
\* with progress.
LiveSpec == Init /\ [][ValidNext]_vars /\ Progress

\* ----------------------------------------------------------------- claims

\* Every step the backend can take from the state satisfies A: no step of
\* Next that falsifies A is enabled.
EveryStep(A) == ~ENABLED (Next /\ ~A)

\* The order of the queue: by fin_time, then by id.
Before(a, b) ==
    \/ all_timeouts[a].fin_time < all_timeouts[b].fin_time
    \/ /\ all_timeouts[a].fin_time = all_timeouts[b].fin_time
       /\ a < b

Queued(id) == \E k \in 1 .. num_active_timeouts : active_timeouts[k] = id

Occurrences(act, id) == Cardinality({k \in 1 .. Len(act) : act[k] = id})

Without(act, id) == SelectSeq(act, LAMBDA x : x # id)

\* C1: the active queue is sorted ascending by (fin_time, id): of any two
\* adjacent entries the first has the earlier fin_time, or the same fin_time
\* and the smaller id.  It holds in every state, so after every operation.
C1_QueueSorted ==
    \A k \in 1 .. num_active_timeouts - 1 :
        Before(active_timeouts[k], active_timeouts[k + 1])

\* A public function has returned leaving two reasons with the same deadline.
C1_Witness ==
    /\ stack = <<>>
    /\ ev.kind = "setitimer"
    /\ num_active_timeouts = 2
    /\ all_timeouts[active_timeouts[1]].fin_time =
           all_timeouts[active_timeouts[2]].fin_time

\* C2: a reason's active flag is true exactly when the reason is in the
\* active queue, and no reason is in the queue twice.
C2_ActiveIffQueued ==
    /\ \A id \in TimeoutId : all_timeouts[id].active <=> Queued(id)
    /\ \A id \in TimeoutId : Occurrences(active_timeouts, id) <= 1

\* The dispatch loop has fired one reason while another stays queued.
C2_Witness ==
    /\ ev.kind = "fire"
    /\ ~all_timeouts[ev.id].active
    /\ num_active_timeouts = 1

\* C4: when a reason's handler is called, every reason still in the queue
\* comes after it in the order (fin_time, id); so of two reasons active at the
\* same time the earlier one, or at equal deadlines the one with the smaller
\* id, has its handler called first.
C4_FiringOrder ==
    ev.kind = "fire" =>
        \A k \in 1 .. num_active_timeouts : Before(ev.id, active_timeouts[k])

\* The first of two reasons with the same deadline has been fired, and the
\* second is due in the same pass.
C4_Witness ==
    /\ ev.kind = "fire"
    /\ num_active_timeouts = 1
    /\ all_timeouts[active_timeouts[1]].fin_time = all_timeouts[ev.id].fin_time
    /\ Top.now >= all_timeouts[active_timeouts[1]].fin_time

\* The steps the claims speak of, by the label of the step taken.
FireStep(id) == ev'.kind = "fire" /\ ev'.id = id

EnableStep(id) == ev'.kind = "enable" /\ ev'.id = id

GetIndicatorStep(id, reset) ==
    /\ ev'.kind = (IF reset THEN "get_indicator_reset" ELSE "get_indicator")
    /\ ev'.id = id

\* A step that is allowed to reset the indicator of id without reporting it:
\* an enable of id, a disable of id or of all that does not keep indicators.
ClearingStep(id) ==
    \/ EnableStep(id)
    \/ ev'.kind = "disable" /\ ev'.id = id /\ ~ev'.flag
    \/ ev'.kind = "disable_all" /\ ~ev'.flag

\* What C5 says of the steps that set, report and reset indicators, except
\* for how long a set indicator stays.
IndicatorSteps(id) ==
    /\ FireStep(id) =>
           ~all_timeouts[id].indicator /\ all_timeouts'[id].indicator
    /\ ~all_timeouts[id].indicator /\ all_timeouts'[id].indicator => FireStep(id)
    /\ GetIndicatorStep(id, TRUE) =>
           /\ ev'.flag = all_timeouts[id].indicator
           /\ ~all_timeouts'[id].indicator
    /\ GetIndicatorStep(id, FALSE) =>
           /\ ev'.flag = all_timeouts[id].indicator
           /\ all_timeouts' = all_timeouts

\* C5 as stated: a firing sets the indicator, and the indicator then stays
\* set until get_timeout_indicator(id, true) reports it, which resets it, so
\* that each firing is reported exactly once; get_timeout_indicator(id, false)
\* changes nothing.
C5_ReportedExactlyOnce ==
    [][\A id \in TimeoutId :
          /\ IndicatorSteps(id)
          /\ all_timeouts[id].indicator /\ ~all_timeouts'[id].indicator =>
                 GetIndicatorStep(id, TRUE)]_vars

\* C5 amended: a firing sets the indicator; get_timeout_indicator(id, true)
\* reports a set indicator once and resets it; the indicator of a firing is
\* reset unreported only by enabling the reason again, by disabling it
\* without keep_indicator or by disable_all_timeouts(false).
C5_ReportedAtMostOnce ==
    EveryStep(
       \A id \in TimeoutId :
          /\ IndicatorSteps(id)
          /\ all_timeouts[id].indicator /\ ~all_timeouts'[id].indicator =>
                 GetIndicatorStep(id, TRUE) \/ ClearingStep(id))

\* get_timeout_indicator(id, true) has reported a firing and reset it.
C5_Witness ==
    /\ ev.kind = "get_indicator_reset"
    /\ ev.flag
    /\ ~all_timeouts[ev.id].indicator

\* C6: enabling a reason leaves it in the queue exactly once, active, with
\* the fin_time of the call and no indicator, and the other entries as they
\* were, be the reason active before or not; a firing takes the reason out
\* of the queue, is of an active reason and happens at a clock reading that
\* has reached the fin_time of its last enabling.
C6_RescheduleSingleEntry ==
    EveryStep(
       \A id \in TimeoutId :
          /\ EnableStep(id) =>
                 /\ Occurrences(active_timeouts', id) = 1
                 /\ all_timeouts'[id].active
                 /\ ~all_timeouts'[id].indicator
                 /\ all_timeouts'[id].fin_time = ev'.val
                 /\ Without(active_timeouts', id) = Without(active_timeouts, id)
                 /\ ev'.flag = all_timeouts[id].active
          /\ FireStep(id) =>
                 /\ all_timeouts[id].active
                 /\ ~all_timeouts'[id].active
                 /\ Occurrences(active_timeouts', id) = 0
                 /\ Top.now >= all_timeouts[id].fin_time
                 /\ clock >= Top.now)

\* An active reason has been enabled again, to a deadline after the other
\* active reason's.
C6_Witness ==
    /\ ev.kind = "enable"
    /\ ev.flag
    /\ num_active_timeouts = 2
    /\ active_timeouts[2] = ev.id
    /\ all_timeouts[ev.id].fin_time > all_timeouts[active_timeouts[1]].fin_time

\* C7: disable_all_timeouts leaves the queue empty and no reason active;
\* with keep_indicators false it leaves no indicator set, with keep_indicators
\* true it leaves every indicator as it was.
C7_DisableAll ==
    EveryStep(
       ev'.kind = "disable_all" =>
          /\ active_timeouts' = <<>>
          /\ \A id \in TimeoutId :
               /\ ~all_timeouts'[id].active
               /\ IF ev'.flag
                  THEN all_timeouts'[id].indicator = all_timeouts[id].indicator
                  ELSE ~all_timeouts'[id].indicator)

\* disable_all_timeouts(false) has returned to mainline, having found a reason
\* active; a reason that had fired before has no indicator.
C7_Witness ==
    /\ ev.kind = "disable_all"
    /\ ~ev.flag
    /\ ev.val >= 1
    /\ stack = <<>>
    /\ \A id \in TimeoutId : ~all_timeouts[id].active /\ ~all_timeouts[id].indicator

\* C8: a SIGALRM delivered while alarm_enabled is false calls no timeout
\* handler, sets no indicator and leaves the queue, the timer and the flag
\* as they are.
C8_IgnoredWhenDisabled ==
    EveryStep(
       sigpending /\ ~sigpending' /\ ~alarm_enabled =>
          UNCHANGED <<all_timeouts, active_timeouts, itimer, alarm_enabled,
                      stack>>)

\* A SIGALRM has been ignored although the head of the queue was due.
C8_Witness ==
    /\ ev.kind = "sig_ignored"
    /\ ~alarm_enabled
    /\ num_active_timeouts > 0
    /\ clock >= all_timeouts[active_timeouts[1]].fin_time

\* A public function or a dispatch returns through the setitimer() of
\* schedule_alarm.
ReturnStep ==
    /\ stack # <<>>
    /\ Top.pc = "setitimer"
    /\ stack' = Pop

HeadFinTime(act, all) == all[act[1]].fin_time

\* C9 as stated: on a return that leaves the queue non-empty, alarm_enabled
\* is true, it was set before the timer was armed, and the timer is armed
\* with the interval from the clock reading of the call to the fin_time of
\* the head of the queue.
C9_ArmedForHead ==
    [][ReturnStep /\ active_timeouts' # <<>> =>
          /\ alarm_enabled /\ alarm_enabled'
          /\ itimer' # 0
          /\ Top.delta = AlarmInterval(Top.now,
                             HeadFinTime(active_timeouts', all_timeouts'))]_vars

\* C9 amended: on such a return alarm_enabled is true, it was set before the
\* timer was armed, and the timer is armed with a positive interval that is
\* at most the interval from the clock reading of the call to the fin_time
\* of the head of the queue.
C9_ArmedNoLaterThanHead ==
    EveryStep(
       ReturnStep /\ active_timeouts' # <<>> =>
          /\ alarm_enabled /\ alarm_enabled'
          /\ itimer' # 0
          /\ Top.delta >= 1
          /\ Top.delta <= AlarmInterval(Top.now,
                              HeadFinTime(active_timeouts', all_timeouts')))

\* A public function has returned to mainline with a non-empty queue.
C9_Witness ==
    /\ ev.kind = "setitimer"
    /\ stack = <<>>
    /\ num_active_timeouts > 0
    /\ alarm_enabled
    /\ itimer # 0

\* C10: the active queue changes only in steps taken with alarm_enabled
\* false.
C10_QueueChangesOnlyDisabled ==
    [][active_timeouts' # active_timeouts => ~alarm_enabled]_vars

\* A handler is called only at a clock reading that has reached the fin_time
\* of its reason.
NeverEarly ==
    ev.kind = "fire" => clock >= all_timeouts[ev.id].fin_time

DisableStep(id) == ev'.kind = "disable" /\ ev'.id = id

\* C11: disabling the reason id takes it out of the queue if it is there and
\* leaves the queue as it is otherwise; the reason is then inactive, and its
\* indicator is reset unless keep_indicator, when it stays as it was; the
\* entries of the other reasons, and their order in the queue, are as before;
\* and if reasons remain active disable_timeout goes on to schedule_alarm.
C11_DisableOne ==
    EveryStep(
       \A id \in TimeoutId :
          DisableStep(id) =>
              /\ active_timeouts' = Without(active_timeouts, id)
              /\ ~all_timeouts'[id].active
              /\ all_timeouts'[id].indicator =
                     (ev'.flag /\ all_timeouts[id].indicator)
              /\ all_timeouts'[id].fin_time = all_timeouts[id].fin_time
              /\ \A o \in TimeoutId \ {id} : all_timeouts'[o] = all_timeouts[o]
              /\ Running'
              /\ Top.name = "disable_timeout" /\ active_timeouts' # <<>> =>
                     /\ Len(stack') = Len(stack)
                     /\ stack'[Len(stack')].pc = "enable_alarm")

\* disable_timeout(id, true) has left the indicator of a firing of id set,
\* and another reason active.
C11_Witness ==
    /\ ev.kind = "disable"
    /\ ev.flag
    /\ all_timeouts[ev.id].indicator
    /\ num_active_timeouts = 1
    /\ stack # <<>>
    /\ Top.pc = "enable_alarm"

\* The user range of ids has no free id.
UserRangeFull(all) ==
    \A id \in USER_TIMEOUT .. (GP_PARALLEL_RETRIEVE_CURSOR_CHECK_TIMEOUT - 1) :
        all[id].timeout_handler

Swallowed ==
    /\ stack = <<>>
    /\ active_timeouts # <<>>
    /\ ~alarm_enabled \/ (itimer = 0 /\ ~sigpending)

\* The step of reschedule_timeouts(), or of disable_timeout or one pass of
\* disable_timeouts, that is followed by the test of num_active_timeouts.
RecoveryStep == ev.kind \in {"reschedule", "disable"}

InTable(portal) ==
    \E i \in 1 .. Len(PortalHashTable) : PortalHashTable[i].portal = portal

NameInTable(name) ==
    \E i \in 1 .. Len(PortalHashTable) : PortalHashTable[i].portalname = name

\* C14: for every name in the portal table GetPortalByName returns a portal
\* whose name is that name, the key of its entry; no name has two portals;
\* and GetPortalByName of a name that is not in the table returns NULL.
C14_NameLookup ==
    /\ \A i \in 1 .. Len(PortalHashTable) :
         LET e == PortalHashTable[i]
         IN  /\ GetPortalByName(e.portalname) = e.portal
             /\ e.portal \in PortalAddr
             /\ portals[e.portal].allocated
             /\ portals[e.portal].name = e.portalname
    /\ \A i, j \in 1 .. Len(PortalHashTable) :
         PortalHashTable[i].portalname = PortalHashTable[j].portalname => i = j
    /\ \A a, b \in PortalAddr :
         /\ portals[a].allocated
         /\ portals[b].allocated
         /\ portals[a].name = portals[b].name
         => a = b
    /\ \A a \in PortalAddr : portals[a].allocated => InTable(a)
    /\ \A name \in PortalName :
         ~NameInTable(name) => GetPortalByName(name) = NULL

\* A portal has been dropped while another stays: one name is in the table
\* and one is not.
C14_Witness ==
    /\ pev.kind \in {"PortalDrop", "PortalHashTableDeleteAll", "CreatePortal",
                     "PreCommit_Portals", "AtCleanup_Portals"}
    /\ pev.err = ""
    /\ Len(PortalHashTable) = 1
    /\ \E name \in PortalName : ~NameInTable(name)
    /\ \E a \in PortalAddr : ~portals[a].allocated /\ a < PortalHashTable[1].portal

\* The step has put a new portal struct at the address a.
CreatedAt(a) ==
    /\ pev'.kind = "CreatePortal"
    /\ pev'.err = ""
    /\ pev'.portal = a

\* The edges of the state machine of portal->status, with the functions that
\* take them.
StatusEdge(from, to, kind) ==
    \/ from = "PORTAL_NEW" /\ to = "PORTAL_DEFINED" /\ kind = "PortalDefineQuery"
    \/ from = "PORTAL_DEFINED" /\ to = "PORTAL_READY" /\ kind = "PortalStart"
    \/ from = "PORTAL_READY" /\ to = "PORTAL_ACTIVE" /\ kind = "MarkPortalActive"
    \/ from = "PORTAL_ACTIVE" /\ to = "PORTAL_DONE" /\ kind = "MarkPortalDone"
    \/ /\ from # "PORTAL_DONE"
       /\ to = "PORTAL_FAILED"
       /\ kind = "MarkPortalFailed"
    \/ /\ from = "PORTAL_ACTIVE"
       /\ to = "PORTAL_FAILED"
       /\ kind \in {"AtAbort_Portals", "AtSubAbort_Portals"}

\* C15: the status of a portal changes only along the edges of the state
\* machine: NEW to DEFINED by PortalDefineQuery, DEFINED to READY by the
\* caller's start, READY to ACTIVE by MarkPortalActive, ACTIVE to DONE by
\* MarkPortalDone, and a status other than DONE to FAILED by MarkPortalFailed
\* (which the abort hooks call on a running portal); a portal starts NEW.
C15_StatusEdges ==
    [][\A a \in PortalAddr :
         /\ CreatedAt(a) =>
                portals'[a].allocated /\ portals'[a].status = "PORTAL_NEW"
         /\ ~portals[a].allocated /\ portals'[a].allocated => CreatedAt(a)
         /\ /\ portals[a].allocated
            /\ portals'[a].allocated
            /\ ~CreatedAt(a)
            /\ portals'[a].status # portals[a].status
            => StatusEdge(portals[a].status, portals'[a].status, pev'.kind)]_vars

\* MarkPortalDone has taken a running portal to DONE while another portal has
\* been taken to FAILED.
C15_Witness ==
    /\ pev.kind = "MarkPortalDone"
    /\ pev.err = ""
    /\ portals[pev.portal].status = "PORTAL_DONE"
    /\ \E a \in PortalAddr :
         portals[a].allocated /\ portals[a].status = "PORTAL_FAILED"

\* The portal struct at a is the same portal before and after the step.
SamePortal(a) ==
    /\ portals[a].allocated
    /\ portals'[a].allocated
    /\ ~CreatedAt(a)

\* C16 as claimed: the cleanup hook of a portal is invoked at most once, and
\* once it has been invoked the cleanup field of the portal is empty.
C16_CleanupAtMostOnce ==
    \A a \in PortalAddr :
        portals[a].allocated =>
            /\ portals[a].cleanup_calls <= 1
            /\ portals[a].cleanup_calls = 1 => ~portals[a].cleanup

\* C16, amended: the cleanup hook is invoked only while the cleanup field is
\* set; an invocation that returns leaves the field empty, and the hook is
\* not invoked and the field not set again; an invocation that exits by an
\* error leaves the field set, the error going to the caller.  (The count of
\* the invocations stops at MaxCalls.)
C16_CleanupWhileSet ==
    [][\A a \in PortalAddr :
         SamePortal(a) =>
            /\ portals'[a].cleanup_calls >= portals[a].cleanup_calls
            /\ portals'[a].cleanup_calls # portals[a].cleanup_calls =>
                   /\ portals[a].cleanup
                   /\ portals'[a].cleanup => pev'.err # ""
            /\ ~portals[a].cleanup =>
                   /\ ~portals'[a].cleanup
                   /\ portals'[a].cleanup_calls = portals[a].cleanup_calls
            /\ portals[a].cleanup /\ ~portals'[a].cleanup =>
                   \/ portals'[a].cleanup_calls # portals[a].cleanup_calls
                   \/ portals[a].cleanup_calls = MaxCalls]_vars

\* AtAbort_Portals has invoked, for the second time, a hook that had exited
\* by an error; this time it returned.
C16_Witness ==
    /\ pev.kind = "AtAbort_Portals"
    /\ \E a \in PortalAddr :
         /\ portals[a].allocated
         /\ portals[a].cleanup_calls = 2
         /\ ~portals[a].cleanup

\* PreCommit_Portals(false) has returned without an error.
PreCommitReturned ==
    /\ pev'.kind = "PreCommit_Portals"
    /\ pev'.err = ""
    /\ ~pev'.flag

\* The transaction has created no holdable cursor.
NoHoldCursor ==
    \A a \in PortalAddr :
        portals[a].allocated /\ portals[a].createSubid # InvalidSubTransactionId
            => ~portals[a].cursorOptions

GoneAfter(a) ==
    /\ ~portals'[a].allocated
    /\ \A i \in 1 .. Len(PortalHashTable') : PortalHashTable'[i].portal # a

\* The portal at a is destroyed in the state r a function leaves.
GoneIn(r, a) ==
    /\ ~r.mem[a].allocated
    /\ \A i \in 1 .. Len(r.tab) : r.tab[i].portal # a

\* C17 as claimed: after PreCommit_Portals(false) has returned in a
\* transaction without holdable cursors, every portal created in the
\* transaction is gone from the table, whatever its status.
C17_AllGone ==
    [][PreCommitReturned /\ NoHoldCursor =>
         \A a \in PortalAddr :
             /\ portals[a].allocated
             /\ portals[a].createSubid # InvalidSubTransactionId
             => GoneAfter(a)]_vars

\* C17, amended: after PreCommit_Portals(false) has returned in a
\* transaction without holdable cursors, every portal created in the
\* transaction that is not running is gone from the table; a running one
\* stays, without its resource owner and otherwise unchanged.
\* Stated of every call of PreCommit_Portals(false) the transaction allows.
C17_AllButActiveGone ==
    /\ CurrentTransactionState.blockState \in
           {"TBLOCK_INPROGRESS", "TBLOCK_END"}
    /\ ~InSubTransaction
    /\ CommitAllowed
    /\ NoHoldCursor
    => \A raises \in MayRaise :
          LET r == PreCommitWalk(CurPortals, 1, FALSE, raises)
          IN  r.err = "" =>
                \A a \in PortalAddr :
                    /\ portals[a].allocated
                    /\ portals[a].createSubid # InvalidSubTransactionId
                    => IF portals[a].status = "PORTAL_ACTIVE"
                       THEN /\ r.mem[a] =
                                   [portals[a] EXCEPT
                                       !.resowner = FALSE,
                                       !.resowner_parent = InvalidSubTransactionId]
                            /\ PortalHashTableLookup(r.tab, portals[a].name) = a
                       ELSE GoneIn(r, a)

\* PreCommit_Portals(false) has dropped a portal and returned true while a
\* running portal of the transaction has stayed.
C17_Witness ==
    /\ pev.kind = "PreCommit_Portals"
    /\ pev.err = ""
    /\ ~pev.flag
    /\ CurrentTransactionState.blockState = "TBLOCK_END"
    /\ \A a \in PortalAddr : ~portals[a].cursorOptions
    /\ \E a \in PortalAddr :
         /\ portals[a].allocated
         /\ portals[a].status = "PORTAL_ACTIVE"
         /\ portals[a].createSubid # InvalidSubTransactionId

CreatedInTransaction(a) ==
    /\ portals[a].allocated
    /\ portals[a].createSubid # InvalidSubTransactionId

HeldOver(a) == portals[a].allocated /\ portals[a].holdStore

\* C19: a holdable cursor that has survived PreCommit_Portals has an invalid
\* createSubid, and every hook of the transactions that follow, in which it
\* may be run, leaves it in the table under its name; only PortalDrop, called
\* by a command, by CreatePortal for a new portal of its name or by
\* PortalHashTableDeleteAll, removes it.
C19_HeldOverSurvives ==
    /\ [](\A a \in PortalAddr :
            HeldOver(a) => portals[a].createSubid = InvalidSubTransactionId)
    /\ [][\A a \in PortalAddr :
            HeldOver(a) =>
               \/ /\ portals'[a].allocated
                  /\ portals'[a].holdStore
                  /\ portals'[a].name = portals[a].name
                  /\ portals'[a].createSubid = InvalidSubTransactionId
                  /\ GetPortalByName(portals[a].name)' = a
               \/ pev'.kind \in {"PortalDrop", "PortalHashTableDeleteAll",
                                 "CreatePortal"}]_vars

\* A held-over cursor was run in a later transaction, which was aborted: it
\* has been failed by AtAbort_Portals and is still there after
\* AtCleanup_Portals has dropped the portals of the transaction.
C19_Witness ==
    /\ pev.kind = "AtCleanup_Portals"
    /\ pev.flag
    /\ \E a \in PortalAddr :
         /\ HeldOver(a)
         /\ portals[a].status = "PORTAL_FAILED"
         /\ GetPortalByName(portals[a].name) = a

\* C20: PreCommit_Portals(false) that returns without an error materializes
\* every READY portal with the HOLD option created in the transaction:
\* PersistHoldablePortal is called once on it, it has a hold store, no cached
\* plan, no resource owner, createSubid and activeSubid invalid, is READY
\* and found under its name; a held-over portal is not materialized again.
C20_HoldMaterialized ==
    /\ [](\A a \in PortalAddr :
            portals[a].allocated =>
               /\ portals[a].persisted <= 1
               /\ portals[a].holdStore <=> portals[a].persisted = 1)
    /\ [][/\ PreCommitReturned =>
               \A a \in PortalAddr :
                  portals[a].allocated /\ IsHoldableHere(portals[a]) =>
                     /\ portals'[a] =
                            [portals[a] EXCEPT
                                !.holdStore = TRUE,
                                !.persisted = 1,
                                !.cplan = FALSE,
                                !.cplan_refs = 0,
                                !.stmts = IF portals[a].cplan THEN FALSE ELSE @,
                                !.resowner = FALSE,
                                !.resowner_parent = InvalidSubTransactionId,
                                !.createSubid = InvalidSubTransactionId,
                                !.activeSubid = InvalidSubTransactionId]
                     /\ portals'[a].status = "PORTAL_READY"
                     /\ GetPortalByName(portals[a].name)' = a
          /\ \A a \in PortalAddr :
               HeldOver(a) /\ SamePortal(a) =>
                  portals'[a].persisted = portals[a].persisted]_vars

\* PreCommit_Portals(false) has changed portals and returned true: a cursor
\* is materialized, while a cursor held over from an earlier transaction,
\* run to its end in this one, has not been materialized again.
C20_Witness ==
    /\ pev.kind = "PreCommit_Portals"
    /\ pev.err = ""
    /\ ~pev.flag
    /\ CurrentTransactionState.blockState = "TBLOCK_END"
    /\ \E a, b \in PortalAddr :
         /\ HeldOver(a)
         /\ portals[a].persisted = 1
         /\ portals[a].status = "PORTAL_READY"
         /\ ~portals[a].cplan
         /\ HeldOver(b)
         /\ portals[b].persisted = 1
         /\ portals[b].status = "PORTAL_DONE"

\* C21: PortalDrop of a pinned or running portal raises
\* ERRCODE_INVALID_CURSOR_STATE and changes nothing, the cleanup hook not
\* being called; a running portal never leaves the table, a pinned one only
\* in AtCleanup_Portals and AtSubCleanup_Portals, which unpin it first; and
\* the PortalDrop that follows UnpinPortal removes the portal.
C21_NoDropWhilePinnedOrActive ==
    /\ [](\A a \in PortalAddr, raises \in MayRaise, isTopCommit \in BOOLEAN :
            portals[a].allocated =>
               IF portals[a].portalPinned \/ portals[a].status = "PORTAL_ACTIVE"
               THEN PortalDrop(CurPortals, a, isTopCommit, raises) =
                        Raise(CurPortals, "cannot drop active portal")
               ELSE PortalDrop(CurPortals, a, isTopCommit, raises).err
                        \in {"", "cleanup", "resource release"})
    /\ [][/\ /\ pev'.kind = "PortalDrop"
             /\ \/ portals[pev'.portal].portalPinned
                \/ portals[pev'.portal].status = "PORTAL_ACTIVE"
             => /\ errcode(pev'.err) = "ERRCODE_INVALID_CURSOR_STATE"
                /\ UNCHANGED <<PortalHashTable, portals>>
          /\ \A a \in PortalAddr :
               portals[a].allocated /\ ~SamePortal(a) =>
                  /\ portals[a].status # "PORTAL_ACTIVE"
                  /\ portals[a].portalPinned =>
                         pev'.kind \in {"AtCleanup_Portals",
                                        "AtSubCleanup_Portals"}
          /\ /\ pev.kind = "UnpinPortal"
             /\ pev.err = ""
             /\ pev'.kind = "PortalDrop"
             /\ pev'.portal = pev.portal
             /\ portals[pev.portal].status # "PORTAL_ACTIVE"
             /\ pev'.err # "cleanup"
             => /\ pev'.err \in {"", "resource release"}
                /\ GoneAfter(pev.portal)]_vars

\* PortalDrop has been refused for a pinned portal, which is unchanged in
\* the table.
C21_Witness ==
    /\ pev.kind = "PortalDrop"
    /\ errcode(pev.err) = "ERRCODE_INVALID_CURSOR_STATE"
    /\ portals[pev.portal].allocated
    /\ portals[pev.portal].portalPinned
    /\ portals[pev.portal].cleanup
    /\ GetPortalByName(portals[pev.portal].name) = pev.portal

\* C22: MarkPortalActive of a READY portal sets the status to ACTIVE and
\* activeSubid to the current subtransaction id and nothing else;
\* of a portal in another status it raises
\* ERRCODE_OBJECT_NOT_IN_PREREQUISITE_STATE and changes nothing.
\* Stated of every call the transaction allows and of the state a call
\* leaves.
C22_MarkActive ==
    /\ InProgress =>
         \A a \in PortalAddr :
            LivePortal(a) =>
               LET r == MarkPortalActive(CurPortals, a,
                                         GetCurrentSubTransactionId)
               IN  IF portals[a].status = "PORTAL_READY"
                   THEN /\ r.err = ""
                        /\ r.tab = PortalHashTable
                        /\ r.mem =
                               [portals EXCEPT
                                   ![a].status = "PORTAL_ACTIVE",
                                   ![a].activeSubid = GetCurrentSubTransactionId]
                   ELSE /\ errcode(r.err) =
                               "ERRCODE_OBJECT_NOT_IN_PREREQUISITE_STATE"
                        /\ r.tab = PortalHashTable
                        /\ r.mem = portals
    /\ pev.kind = "MarkPortalActive" =>
         IF pev.err = ""
         THEN /\ portals[pev.portal].status = "PORTAL_ACTIVE"
              /\ portals[pev.portal].activeSubid = GetCurrentSubTransactionId
         ELSE /\ errcode(pev.err) = "ERRCODE_OBJECT_NOT_IN_PREREQUISITE_STATE"
              /\ portals[pev.portal].status # "PORTAL_READY"

\* MarkPortalActive has run, in a subtransaction, a portal created outside
\* of it.
C22_Witness ==
    /\ pev.kind = "MarkPortalActive"
    /\ pev.err = ""
    /\ portals[pev.portal].status = "PORTAL_ACTIVE"
    /\ portals[pev.portal].createSubid = TopSubTransactionId
    /\ portals[pev.portal].activeSubid > TopSubTransactionId

\* The portal that CreatePortal makes in the subtransaction subid.
NewPortal(name, subid) ==
    [FreePortal EXCEPT !.allocated = TRUE, !.name = name,
                       !.status = "PORTAL_NEW", !.cleanup = TRUE,
                       !.portalPinned = FALSE, !.visible = TRUE,
                       !.createSubid = subid, !.activeSubid = subid,
                       !.resowner = TRUE,
                       !.resowner_parent = subid]

\* C23: CreatePortal of a name that is in the table raises
\* ERRCODE_DUPLICATE_CURSOR when allowDup is false and changes nothing; when
\* allowDup is true it drops the portal of that name by PortalDrop and, the
\* drop done, the name is that of a new portal: status NEW, cleanup set, not
\* pinned, visible, createSubid and activeSubid the current subtransaction.
C23_CreateDuplicate ==
    InProgress =>
      \A name \in PortalName, raises \in MayRaise :
        LET old == GetPortalByName(name)
            subid == GetCurrentSubTransactionId
            refused == CreatePortal(CurPortals, name, FALSE, subid, raises)
            dropped == PortalDrop(CurPortals, old, FALSE, raises)
            created == CreatePortal(CurPortals, name, TRUE, subid, raises)
            new == PortalHashTableLookup(created.tab, name)
        IN  old # NULL =>
              /\ refused = Raise(CurPortals, "cursor already exists")
              /\ errcode(refused.err) = "ERRCODE_DUPLICATE_CURSOR"
              /\ IF dropped.err # ""
                 THEN created = dropped
                 ELSE /\ created.err = ""
                      /\ new \in PortalAddr
                      /\ created.mem[new] = NewPortal(name, subid)
                      /\ new # old => ~created.mem[old].allocated
                      /\ \A i \in 1 .. Len(created.tab) :
                           created.tab[i].portal = old =>
                               old = new /\ created.tab[i].portalname = name
                      /\ \A a \in PortalAddr \ {old, new} :
                           created.mem[a] = portals[a]

\* CreatePortal has replaced the portal of the name, inside a
\* subtransaction.
C23_Witness ==
    /\ pev.kind = "CreatePortal"
    /\ pev.flag
    /\ pev.err = ""
    /\ portals[pev.portal].createSubid > TopSubTransactionId
    /\ portals[pev.portal] =
           NewPortal(portals[pev.portal].name, GetCurrentSubTransactionId)
    /\ GetPortalByName(portals[pev.portal].name) = pev.portal

\* C24: PreCommit_Portals(true) leaves every READY portal with the HOLD
\* option created in the transaction as it is, in the table, neither
\* materialized nor dropped, and does not return: it raises
\* ERRCODE_FEATURE_NOT_SUPPORTED when it meets the portal, unless it has met
\* a pinned portal, or a cleanup hook or a release of resources that raised,
\* before.
\* Stated of every call of PreCommit_Portals(true) the transaction allows.
C24_PrepareRefused ==
    /\ CurrentTransactionState.blockState \in
           {"TBLOCK_INPROGRESS", "TBLOCK_PREPARE"}
    /\ ~InSubTransaction
    /\ CommitAllowed
    => \A raises \in MayRaise :
          LET r == PreCommitWalk(CurPortals, 1, TRUE, raises)
          IN  /\ \A a \in PortalAddr :
                   portals[a].allocated /\ IsHoldableHere(portals[a]) =>
                      /\ r.mem[a] = portals[a]
                      /\ PortalHashTableLookup(r.tab, portals[a].name) = a
                      /\ \/ errcode(r.err) = "ERRCODE_FEATURE_NOT_SUPPORTED"
                         \/ r.err \in {"cleanup", "resource release",
                                       "cannot commit while a portal is pinned"}
              /\ errcode(r.err) = "ERRCODE_FEATURE_NOT_SUPPORTED" =>
                   \E a \in PortalAddr :
                       portals[a].allocated /\ IsHoldableHere(portals[a])

\* PreCommit_Portals(true) has refused a holdable cursor, which still has
\* its cached plan and resource owner and is not materialized.
C24_Witness ==
    /\ pev.kind = "PreCommit_Portals"
    /\ pev.flag
    /\ errcode(pev.err) = "ERRCODE_FEATURE_NOT_SUPPORTED"
    /\ \E a \in PortalAddr :
         /\ portals[a].allocated
         /\ IsHoldableHere(portals[a])
         /\ portals[a].cplan
         /\ portals[a].resowner
         /\ ~portals[a].holdStore
         /\ portals[a].persisted = 0
         /\ GetPortalByName(portals[a].name) = a

\* C25: the reference of a portal to its cached plan is counted once while
\* the portal has the plan and not at all when the plan has been released or
\* the portal is destroyed, never less than that; and the step that releases
\* the plan of a portal that stays empties its statement list too.  The plan
\* is released by PortalDrop, which the functions that destroy portals
\* call, by the materialization of PreCommit_Portals or by AtAbort_Portals or
\* AtSubAbort_Portals, whichever comes first.
C25_PlanReleasedOnce ==
    /\ [](\A a \in PortalAddr :
            /\ portals[a].cplan_refs = IF portals[a].cplan THEN 1 ELSE 0
            /\ portals[a].cplan => portals[a].allocated /\ portals[a].stmts)
    /\ [][\A a \in PortalAddr :
            /\ portals[a].cplan /\ SamePortal(a) /\ ~portals'[a].cplan =>
                  /\ ~portals'[a].stmts
                  /\ pev'.kind \in {"PreCommit_Portals", "AtAbort_Portals",
                                    "AtSubAbort_Portals"}
            /\ portals[a].cplan /\ ~SamePortal(a) =>
                  pev'.kind \in {"PortalDrop", "PortalHashTableDeleteAll",
                                 "CreatePortal", "PreCommit_Portals",
                                 "AtCleanup_Portals", "AtSubCleanup_Portals"}
            /\ /\ ~portals[a].cplan
               /\ SamePortal(a)
               /\ pev'.kind # "PortalDefineQuery"
               =>
                  /\ ~portals'[a].cplan
                  /\ portals'[a].stmts = portals[a].stmts]_vars

\* AtAbort_Portals has released the plan of a portal, which AtCleanup_Portals
\* will drop without a plan to release.
C25_Witness ==
    /\ pev.kind = "AtAbort_Portals"
    /\ \E a \in PortalAddr :
         /\ portals[a].allocated
         /\ portals[a].status # "PORTAL_NEW"
         /\ ~portals[a].cplan
         /\ ~portals[a].stmts
         /\ portals[a].cplan_refs = 0

\* C26: when PortalHashTableDeleteAll returns, the table holds the portals
\* that were running when it was called, unchanged, and no other.
\* Stated of every call the transaction allows and of the state a call
\* leaves.
C26_DeleteAll ==
    /\ BetweenCommands =>
         \A raises \in MayRaise :
            LET r == DeleteAllWalk(CurPortals, 1, raises)
            IN  r.err = "" =>
                  /\ r.tab =
                         SelectSeq(PortalHashTable,
                                   LAMBDA e :
                                      portals[e.portal].status = "PORTAL_ACTIVE")
                  /\ \A a \in PortalAddr :
                       IF portals[a].allocated /\ portals[a].status = "PORTAL_ACTIVE"
                       THEN r.mem[a] = portals[a]
                       ELSE ~r.mem[a].allocated
    /\ pev.kind = "PortalHashTableDeleteAll" /\ pev.err = "" =>
         /\ \A a \in PortalAddr :
              portals[a].allocated => portals[a].status = "PORTAL_ACTIVE"
         /\ \A i \in 1 .. Len(PortalHashTable) :
              portals[PortalHashTable[i].portal].status = "PORTAL_ACTIVE"

\* PortalHashTableDeleteAll has dropped a portal and left a running one.
C26_Witness ==
    /\ pev.kind = "PortalHashTableDeleteAll"
    /\ pev.err = ""
    /\ pev.flag
    /\ Len(PortalHashTable) = 1
    /\ portals[PortalHashTable[1].portal].status = "PORTAL_ACTIVE"


\* The functions that call PortalDrop on the portals of the table.
DropKinds ==
    {"PortalDrop", "PortalHashTableDeleteAll", "CreatePortal",
     "PreCommit_Portals"}

\* The cleanup hook of portal a has raised in this step: the portal is in
\* the table under its name, and nothing of it has been released.
CleanupInterrupted(a) ==
    /\ pev'.err = "cleanup"
    /\ portals[a].cleanup
    /\ portals'[a] = [portals[a] EXCEPT
                         !.cleanup_calls = IF @ < MaxCalls THEN @ + 1 ELSE @]
    /\ InTable(a)'
    /\ GetPortalByName(portals[a].name)' = a

\* C27: a function that drops portals and is interrupted by the error of a
\* cleanup hook leaves the portal of the hook in the table under its name,
\* with its cached plan, resource owner and hold store as they were; one
\* that is interrupted by an error in the release of the resources of a
\* portal, after the hash table entry has been removed, leaves a table that
\* does not hold the portal, under any name; and each portal is either where
\* and as it was or out of the table, never in it partly destroyed.
C27_InterruptedDrop ==
    [][pev'.kind \in DropKinds =>
         /\ \A a \in PortalAddr :
              portals[a].allocated =>
                 \/ portals'[a] = portals[a] /\ InTable(a)'
                 \/ CleanupInterrupted(a)
                 \/ GoneAfter(a)
                 \/ CreatedAt(a)
                 \/ /\ pev'.kind = "PreCommit_Portals"
                    /\ \/ portals[a].status = "PORTAL_ACTIVE"
                       \/ IsHoldableHere(portals[a])
                    /\ InTable(a)'
         /\ pev'.err = "cleanup" =>
              \E a \in PortalAddr : portals[a].allocated /\ CleanupInterrupted(a)
         /\ pev'.err = "resource release" =>
              \E a \in PortalAddr :
                  /\ portals[a].allocated
                  /\ portals[a].resowner
                  /\ pev'.kind = "PortalDrop" => a = pev'.portal
                  /\ GoneAfter(a)
                  /\ GetPortalByName(portals[a].name)' = NULL]_vars

\* PortalDrop has been interrupted after the removal of the hash table
\* entry, the portal is out of the table, and the transaction is to be
\* aborted; an earlier drop of the other portal, interrupted by its cleanup
\* hook in a subtransaction, has left it in the table with its hook, cached
\* plan and resource owner.
C27_Witness ==
    /\ pev.kind = "PortalDrop"
    /\ pev.err = "resource release"
    /\ ~portals[pev.portal].allocated
    /\ ~InTable(pev.portal)
    /\ \E b \in PortalAddr :
          /\ b # pev.portal
          /\ InTable(b)
          /\ portals[b].cleanup
          /\ portals[b].cleanup_calls > 0
          /\ portals[b].cplan
          /\ portals[b].resowner


\* C28: AtAbort_Portals leaves the table as it is; a running portal, held
\* over or not, becomes PORTAL_FAILED and no other status changes, a
\* PORTAL_READY portal staying PORTAL_READY; a portal created in the
\* transaction is left without cleanup hook, cached plan and resource owner;
\* and a portal held over that was not running is unchanged.
\* Stated of every call the transaction allows and of the state a call
\* leaves.
C28_AtAbort ==
    /\ /\ CurrentTransactionState.blockState \in
              {"TBLOCK_INPROGRESS", "TBLOCK_END", "TBLOCK_PREPARE", "ERROR"}
       /\ ~InSubTransaction
       => LET r == AtAbortWalk(CurPortals, 1, NoRaise)
          IN  /\ r.err = ""
              /\ r.tab = PortalHashTable
              /\ \A a \in PortalAddr :
                   IF ~portals[a].allocated THEN r.mem[a] = portals[a]
                   ELSE /\ r.mem[a].allocated
                        /\ r.mem[a].name = portals[a].name
                        /\ r.mem[a].status =
                               IF portals[a].status = "PORTAL_ACTIVE"
                               THEN "PORTAL_FAILED" ELSE portals[a].status
                        /\ portals[a].createSubid # InvalidSubTransactionId =>
                               /\ ~r.mem[a].cleanup
                               /\ ~r.mem[a].cplan
                               /\ r.mem[a].cplan_refs = 0
                               /\ ~r.mem[a].resowner
                        /\ /\ portals[a].createSubid = InvalidSubTransactionId
                           /\ portals[a].status # "PORTAL_ACTIVE"
                           => r.mem[a] = portals[a]
    /\ pev.kind = "AtAbort_Portals" =>
         /\ pev.err = ""
         /\ CurrentTransactionState.blockState = "TBLOCK_ABORT"
         /\ \A a \in PortalAddr :
              portals[a].allocated =>
                 /\ portals[a].status # "PORTAL_ACTIVE"
                 /\ portals[a].createSubid # InvalidSubTransactionId =>
                        /\ ~portals[a].cleanup
                        /\ ~portals[a].cplan
                        /\ portals[a].cplan_refs = 0
                        /\ ~portals[a].resowner

\* AtAbort_Portals has run: a portal of the transaction is still
\* PORTAL_READY, its hook called and forgotten, its plan and resource owner
\* gone, and a cursor held over, which was running, is PORTAL_FAILED.
C28_Witness ==
    /\ pev.kind = "AtAbort_Portals"
    /\ \E a, b \in PortalAddr :
          /\ CreatedInTransaction(a)
          /\ portals[a].status = "PORTAL_READY"
          /\ portals[a].cleanup_calls > 0
          /\ ~portals[a].cleanup
          /\ ~portals[a].resowner
          /\ HeldOver(b)
          /\ portals[b].status = "PORTAL_FAILED"
          /\ InTable(a) /\ InTable(b)


\* C29: AtCleanup_Portals and AtSubCleanup_Portals call no cleanup hook;
\* they raise no error and take every portal created in the (sub)transaction
\* out of the table, pinned or not, with its cleanup hook or without; and
\* they leave every other portal in the table as it is, pin, cleanup hook
\* and status included.
\* Stated of every call the transaction allows.
C29_CleanupCallsNoHook ==
    /\ CurrentTransactionState.blockState = "TBLOCK_ABORT" =>
         LET r == AtCleanupWalk(CurPortals, 1)
         IN  /\ r.called = 0
             /\ r.err = ""
             /\ \A a \in PortalAddr :
                  portals[a].allocated =>
                     IF portals[a].createSubid # InvalidSubTransactionId
                     THEN GoneIn(r, a)
                     ELSE /\ r.mem[a] = portals[a]
                          /\ PortalHashTableLookup(r.tab, portals[a].name) = a
    /\ CurrentTransactionState.blockState = "TBLOCK_SUBABORT" =>
         LET r == AtSubCleanupWalk(CurPortals, 1, GetCurrentSubTransactionId)
         IN  /\ r.called = 0
             /\ r.err = ""
             /\ \A a \in PortalAddr :
                  portals[a].allocated =>
                     IF portals[a].createSubid = GetCurrentSubTransactionId
                     THEN GoneIn(r, a)
                     ELSE /\ r.mem[a] = portals[a]
                          /\ PortalHashTableLookup(r.tab, portals[a].name) = a

\* AtCleanup_Portals has dropped the portals of the failed transaction and
\* has left a held-over cursor in the table, ready and with its cleanup
\* hook.
C29_Witness ==
    /\ pev.kind = "AtCleanup_Portals"
    /\ pev.flag
    /\ pev.err = ""
    /\ \A a \in PortalAddr : portals[a].allocated => HeldOver(a)
    /\ \E b \in PortalAddr :
          /\ HeldOver(b)
          /\ InTable(b)
          /\ portals[b].status = "PORTAL_READY"
          /\ portals[b].cleanup


\* C30: AtSubCommit_Portals(mySubid, parentSubid, parentXactOwner) leaves the
\* table as it is and no portal with createSubid or activeSubid equal to
\* mySubid: each of the two that was mySubid is parentSubid and each that
\* was not is unchanged; the resource owner of a portal whose createSubid
\* was mySubid has parentXactOwner for parent, and no other owner changes
\* parent; status, pin, cleanup hook, cached plan and the rest of every
\* portal are unchanged.
\* Stated of every call the transaction allows.
C30_SubCommitReassigns ==
    BetweenCommands /\ InSubTransaction =>
        LET mySubid == GetCurrentSubTransactionId
            parentSubid == ParentSubid
            r == AtSubCommitWalk(CurPortals, mySubid, parentSubid, parentSubid)
        IN  /\ r.err = ""
            /\ r.tab = PortalHashTable
            /\ \A a \in PortalAddr :
                 LET P == portals[a]
                     Q == r.mem[a]
                 IN  /\ Q.createSubid # mySubid
                     /\ Q.activeSubid # mySubid
                     /\ Q.createSubid = IF P.createSubid = mySubid
                                        THEN parentSubid ELSE P.createSubid
                     /\ Q.activeSubid = IF P.activeSubid = mySubid
                                        THEN parentSubid ELSE P.activeSubid
                     /\ Q.resowner = P.resowner
                     /\ Q.resowner_parent =
                            IF P.createSubid = mySubid /\ P.resowner
                            THEN parentSubid ELSE P.resowner_parent
                     /\ [Q EXCEPT !.createSubid = 0, !.activeSubid = 0,
                                  !.resowner_parent = 0]
                          = [P EXCEPT !.createSubid = 0, !.activeSubid = 0,
                                      !.resowner_parent = 0]

\* A subtransaction has committed: a portal with a resource owner and a
\* cached plan belongs to the subtransaction that goes on, as does its
\* owner, and the other portal, a running cursor held over from an earlier
\* transaction, was last run in it.
C30_Witness ==
    /\ pev.kind = "AtSubCommit_Portals"
    /\ CurrentTransactionState.currentSubTransactionId
           > GetCurrentSubTransactionId
    /\ \E a, b \in PortalAddr :
          /\ portals[a].allocated
          /\ portals[a].resowner
          /\ portals[a].cplan
          /\ portals[a].createSubid = GetCurrentSubTransactionId
          /\ portals[a].resowner_parent = GetCurrentSubTransactionId
          /\ HeldOver(b)
          /\ portals[b].activeSubid = GetCurrentSubTransactionId


\* An upper-level portal that has been run in the subtransaction subid and
\* suspended: MarkPortalActive has stamped activeSubid, and the caller has
\* made the portal PORTAL_READY again.
RunAndSuspended(s, portal, subid) ==
    [MarkPortalActive(s, portal, subid) EXCEPT
        !.mem[portal].status = "PORTAL_READY"]

\* C31: AtSubAbort_Portals(mySubid, parentSubid, myXactOwner, ..) leaves the
\* table as it is; a portal not created in mySubid whose activeSubid is
\* mySubid gets activeSubid parentSubid, becomes PORTAL_FAILED, its cleanup
\* hook called and forgotten, when it was running, and keeps its status
\* otherwise; when it is PORTAL_FAILED then and has a resource owner, the
\* owner gets myXactOwner for parent and the portal has no owner any more; a
\* PORTAL_READY one keeps its resource owner; nothing else of it changes.  A
\* portal neither created nor used in mySubid is unchanged.
\* Stated of every call the transaction allows.
C31_SubAbortUsedPortals ==
  /\ (InSubTransaction =>
          \A a \in PortalAddr :
             /\ portals[a].allocated
             /\ portals[a].status = "PORTAL_READY"
             /\ portals[a].createSubid # GetCurrentSubTransactionId
             => LET s == RunAndSuspended(CurPortals, a,
                                         GetCurrentSubTransactionId)
                    r == AtSubAbortWalk(s, 1, GetCurrentSubTransactionId,
                                        ParentSubid,
                                        GetCurrentSubTransactionId, NoRaise)
                IN  /\ s.mem[a].activeSubid = GetCurrentSubTransactionId
                    /\ r.tab = PortalHashTable
                    /\ r.err = ""
                    /\ r.mem[a] = [portals[a] EXCEPT
                                      !.activeSubid = ParentSubid])
  /\ /\ CurrentTransactionState.blockState \in {"TBLOCK_INPROGRESS", "ERROR"}
     /\ InSubTransaction
     =>
         LET mySubid == GetCurrentSubTransactionId
             parentSubid == ParentSubid
             r == AtSubAbortWalk(CurPortals, 1, mySubid, parentSubid,
                                 mySubid, NoRaise)
         IN  /\ r.tab = PortalHashTable
             /\ \A a \in PortalAddr :
                  LET P == portals[a]
                      Q == r.mem[a]
                      ran == P.status = "PORTAL_ACTIVE"
                  IN  /\ ~P.allocated => Q = P
                      /\ /\ P.allocated
                         /\ P.createSubid # mySubid
                         /\ P.activeSubid # mySubid
                         => Q = P
                      /\ /\ P.allocated
                         /\ P.createSubid # mySubid
                         /\ P.activeSubid = mySubid
                         => /\ Q.activeSubid = parentSubid
                            /\ Q.status = IF ran THEN "PORTAL_FAILED"
                                          ELSE P.status
                            /\ Q.cleanup = (P.cleanup /\ ~ran)
                            /\ Q.cleanup_calls =
                                   IF ran /\ P.cleanup /\ P.cleanup_calls < MaxCalls
                                   THEN P.cleanup_calls + 1
                                   ELSE P.cleanup_calls
                            /\ IF Q.status = "PORTAL_FAILED" /\ P.resowner
                               THEN /\ ~Q.resowner
                                    /\ Q.resowner_parent = mySubid
                               ELSE /\ Q.resowner = P.resowner
                                    /\ Q.resowner_parent = P.resowner_parent
                            /\ P.status = "PORTAL_READY" =>
                                  Q.status = "PORTAL_READY" /\ Q.resowner = P.resowner
                            /\ [Q EXCEPT !.activeSubid = 0,
                                         !.status = "", !.cleanup = FALSE,
                                         !.cleanup_calls = 0, !.resowner = FALSE,
                                         !.resowner_parent = 0]
                                 = [P EXCEPT !.activeSubid = 0,
                                             !.status = "", !.cleanup = FALSE,
                                             !.cleanup_calls = 0,
                                             !.resowner = FALSE,
                                             !.resowner_parent = 0]

\* AtSubAbort_Portals has run: a portal of an upper level that was used in
\* the failed subtransaction is PORTAL_FAILED in the table, its hook called,
\* and the owner it had belongs to the owner of the failed subtransaction.
C31_Witness ==
    /\ pev.kind = "AtSubAbort_Portals"
    /\ CurrentTransactionState.blockState = "TBLOCK_SUBABORT"
    /\ \E a \in PortalAddr :
          /\ InTable(a)
          /\ portals[a].status = "PORTAL_FAILED"
          /\ portals[a].createSubid # GetCurrentSubTransactionId
          /\ portals[a].activeSubid = ParentSubid
          /\ ~portals[a].resowner
          /\ portals[a].resowner_parent = GetCurrentSubTransactionId
          /\ portals[a].cleanup_calls > 0


\* The subtransactions in progress.
LiveSubids ==
    {CurrentTransactionState.subids[i] :
        i \in 1 .. Len(CurrentTransactionState.subids)}

\* C32: every portal created in a transaction belongs, while the transaction
\* lasts, to one of its subtransactions in progress, the portals of the
\* subtransactions that have committed belonging to the parent; AtSubAbort_Portals removes no portal and
\* changes no createSubid; the failed subtransaction does nothing but create
\* the portal of the command that ends it until AtSubCleanup_Portals(mySubid)
\* runs, which raises no error, leaves no portal whose createSubid was
\* mySubid in the table, and leaves every portal of another subtransaction
\* and every cursor held over in the table under its name, unchanged.
C32_SubAbortThenCleanup ==
    /\ [](\A a \in PortalAddr :
            portals[a].allocated =>
               \/ portals[a].createSubid = InvalidSubTransactionId
               \/ portals[a].createSubid \in LiveSubids
               \/ CurrentTransactionState.subids = <<>>)
    /\ [][/\ pev'.kind = "AtSubAbort_Portals" =>
               /\ pev'.err = ""
               /\ PortalHashTable' = PortalHashTable
               /\ CurrentTransactionState'.blockState = "TBLOCK_SUBABORT"
               /\ CurrentTransactionState'.subids = CurrentTransactionState.subids
               /\ \A a \in PortalAddr :
                    /\ portals'[a].allocated = portals[a].allocated
                    /\ portals'[a].name = portals[a].name
                    /\ portals'[a].createSubid = portals[a].createSubid
          /\ CurrentTransactionState.blockState = "TBLOCK_SUBABORT" =>
               pev'.kind \in {"AtSubCleanup_Portals", "CreatePortal",
                              "PortalDefineQuery", "PortalStart"}
          /\ pev'.kind = "AtSubCleanup_Portals" =>
               /\ pev'.err = ""
               /\ \A a \in PortalAddr :
                    portals[a].allocated =>
                       IF portals[a].createSubid = GetCurrentSubTransactionId
                       THEN GoneAfter(a)
                       ELSE /\ portals'[a] = portals[a]
                            /\ InTable(a)'
                            /\ GetPortalByName(portals[a].name)' = a]_vars

\* AtSubCleanup_Portals has dropped the portals of a failed subtransaction
\* after another subtransaction had been started and ended, and has left a
\* portal of the top level of the transaction in the table.
C32_Witness ==
    /\ pev.kind = "AtSubCleanup_Portals"
    /\ pev.flag
    /\ CurrentTransactionState.currentSubTransactionId = MaxNesting
    /\ CurrentTransactionState.subids = <<TopSubTransactionId>>
    /\ \E a \in PortalAddr :
          /\ InTable(a)
          /\ portals[a].createSubid = TopSubTransactionId
          /\ portals[a].resowner


\* ------------------------------------------------ C33

\* C33: in every walk of the portal table (PortalHashTableDeleteAll,
\* PreCommit_Portals, AtAbort_Portals, AtCleanup_Portals, AtSubAbort_Portals,
\* AtSubCleanup_Portals), a step that may run user code (a cleanup hook, the
\* materialization of a cursor, PortalDrop) is followed by hash_seq_term and
\* hash_seq_init: hash_seq_search is never called on a scan that was begun
\* before such a step.  Stated of every call the transaction allows.
C33_EveryWalkRestarts ==
    /\ BetweenCommands =>
           \A raises \in MayRaise :
               ~DeleteAllWalk(CurPortals, 1, raises).continued
    /\ /\ CurrentTransactionState.blockState \in
              {"TBLOCK_INPROGRESS", "TBLOCK_END", "TBLOCK_PREPARE"}
       /\ ~InSubTransaction
       /\ CommitAllowed
       => \A isPrepare \in BOOLEAN, raises \in MayRaise :
              ~PreCommitWalk(CurPortals, 1, isPrepare, raises).continued
    /\ /\ CurrentTransactionState.blockState \in
              {"TBLOCK_INPROGRESS", "TBLOCK_END", "TBLOCK_PREPARE", "ERROR"}
       /\ ~InSubTransaction
       => ~AtAbortWalk(CurPortals, 1, NoRaise).continued
    /\ CurrentTransactionState.blockState = "TBLOCK_ABORT" =>
           ~AtCleanupWalk(CurPortals, 1).continued
    /\ /\ CurrentTransactionState.blockState \in {"TBLOCK_INPROGRESS", "ERROR"}
       /\ InSubTransaction
       => ~AtSubAbortWalk(CurPortals, 1, GetCurrentSubTransactionId,
                          ParentSubid, GetCurrentSubTransactionId,
                          NoRaise).continued
    /\ CurrentTransactionState.blockState = "TBLOCK_SUBABORT" =>
           ~AtSubCleanupWalk(CurPortals, 1,
                             GetCurrentSubTransactionId).continued


\* ------------------------------------------------ C34

\* What every call of CreateNewPortal does, whatever the counter: it raises
\* no error, the portal it returns is a new struct under the name of the new
\* value of the counter, that name was not in the table, and every entry and
\* every struct the table had is kept as it was.
NewPortalIsFresh ==
    LET portalname == UnnamedPortalName(unnamed_portal_count')
    IN  /\ pev'.err = ""
        /\ GetPortalByName(portalname) = NULL
        /\ pev'.portal \in PortalAddr
        /\ ~portals[pev'.portal].allocated
        /\ portals'[pev'.portal].allocated
        /\ portals'[pev'.portal].name = portalname
        /\ PortalHashTable' =
               Append(PortalHashTable,
                      [portalname |-> portalname, portal |-> pev'.portal])
        /\ \A a \in PortalAddr : a # pev'.portal => portals'[a] = portals[a]

\* C34 as stated: CreateNewPortal returns a portal whose name was not in the
\* table, raises no duplicate-cursor error and replaces no portal, and the
\* number in the name starts at 1 and is larger at every call than at the
\* call before.
C34_CountStrictlyIncreases ==
    [][pev'.kind = "CreateNewPortal" =>
           /\ NewPortalIsFresh
           /\ unnamed_portal_count' >= 1
           /\ unnamed_portal_count' > unnamed_portal_count]_vars

\* C34 amended: CreateNewPortal returns a portal whose name was not in the
\* table, raises no duplicate-cursor error and replaces no portal, also when
\* portals with names of its form were created by name.  The number in the
\* name is the first one after the number of the call before, counting
\* modulo UINT_MAX + 1 from 0, whose name is not in the table: it is 1 at the
\* first call when that name is free, every number passed over names a
\* portal in the table, and after UINT_MAX the count goes on from 0.
C34_NewPortalNextFreeCount ==
    [][pev'.kind = "CreateNewPortal" =>
           /\ NewPortalIsFresh
           /\ unnamed_portal_count' \in 0 .. UINT_MAX
           /\ \E d \in 1 .. UINT_MAX + 1 :
                /\ unnamed_portal_count' =
                       (unnamed_portal_count + d) % (UINT_MAX + 1)
                /\ \A j \in 1 .. d - 1 :
                       GetPortalByName(UnnamedPortalName(
                           (unnamed_portal_count + j) % (UINT_MAX + 1))) # NULL
           /\ pev'.flag <=>
                  GetPortalByName(UnnamedPortalName(
                      NextCount(unnamed_portal_count))) # NULL]_vars

\* CreateNewPortal has passed over a name that was in the table, and the
\* counter has come round to 0.
C34_Witness ==
    /\ pev.kind = "CreateNewPortal"
    /\ pev.err = ""
    /\ pev.flag
    /\ unnamed_portal_count = 0
    /\ portals[pev.portal].name = UnnamedPortalName(0)


\* ------------------------------------------------ C35

\* The requests enable_timeouts may be passed for a clock reading of now.
ValidEnableRequests(now) ==
    {req \in EnableTimeoutParams :
        /\ Registered(req.id)
        /\ RequestFinTime(now, req.type, req.val) <= MaxTime}

ValidDisableRequests == {req \in DisableTimeoutParams : Registered(req.id)}

\* The lists of at most MaxBatch elements of S.
Batches(S) == UNION {[1 .. n -> S] : n \in 0 .. MaxBatch}

\* One call of enable_timeout_after or enable_timeout_at for each request
\* from position i on, in the order of the list, each reading the clock as
\* now.
RECURSIVE SequentialEnables(_, _, _, _)
SequentialEnables(r, now, timeouts, i) ==
    IF i > Len(timeouts) THEN r
    ELSE SequentialEnables(
             IF timeouts[i].type = "TMPARAM_AFTER"
             THEN EnableTimeoutAfterCall(r, now, timeouts[i].id, timeouts[i].val)
             ELSE EnableTimeoutAtCall(r, now, timeouts[i].id, timeouts[i].val),
             now, timeouts, i + 1)

\* One call of disable_timeout for each request from position i on.
RECURSIVE SequentialDisables(_, _, _, _)
SequentialDisables(r, now, timeouts, i) ==
    IF i > Len(timeouts) THEN r
    ELSE SequentialDisables(
             DisableTimeoutCall(r, now, timeouts[i].id,
                                timeouts[i].keep_indicator),
             now, timeouts, i + 1)

\* The batch call leaves what the calls one by one leave, and calls setitimer
\* once, with the interval of their last call, where they call it once each;
\* neither calls it for an empty queue.
BatchLikeSequence(batch, seq, count) ==
    /\ batch.m = seq.m
    /\ batch.arms = (IF Len(batch.m.act) > 0 THEN 1 ELSE 0)
    /\ seq.arms <= count
    /\ count > 0 /\ Len(batch.m.act) > 0 =>
           batch.delta = seq.delta /\ seq.arms >= 1

\* C35: at every point where mainline may call it, enable_timeouts on any
\* list of valid requests (the same reason twice, reasons already active)
\* leaves the queue, the active flags, the indicators, the fin_times and the
\* start_times that one call of enable_timeout_after or enable_timeout_at per
\* request, in the order of the list and at the same clock reading, leaves;
\* every reason of the list has the clock reading as its start_time; the
\* timer is armed once, for the head of the final queue, where the calls one
\* by one arm it once each.  disable_timeouts is to disable_timeout the same,
\* arming the timer once when reasons remain active and not at all otherwise
\* (as does enable_timeouts on an empty list).
\* In the run of the functions: the loop of enable_timeouts keeps the clock
\* reading it began with, runs with alarm_enabled false and leaves the timer
\* alone; each pass does what the request says to the queue as it is; nothing
\* else changes the queue meanwhile; schedule_alarm begins when the loop is
\* left, with the clock reading of the loop.
C35_BatchLikeSequentialCalls ==
    /\ (CanCall /\ stack = <<>> =>
            /\ \A timeouts \in Batches(ValidEnableRequests(clock)) :
                 LET batch == EnableTimeoutsCall(CurMux, clock, timeouts)
                     seq == SequentialEnables(Unscheduled(CurMux), clock,
                                              timeouts, 1)
                 IN  /\ BatchLikeSequence(batch, seq, Len(timeouts))
                     /\ timeouts # <<>> => batch.arms = 1 /\ seq.arms = Len(timeouts)
                     /\ \A k \in 1 .. Len(timeouts) :
                          /\ batch.m.all[timeouts[k].id].start_time = clock
                          /\ batch.m.all[timeouts[k].id].active
                          /\ ~batch.m.all[timeouts[k].id].indicator
            /\ \A timeouts \in Batches(ValidDisableRequests) :
                 LET batch == DisableTimeoutsCall(CurMux, clock, timeouts)
                     seq == SequentialDisables(Unscheduled(CurMux), clock,
                                               timeouts, 1)
                 IN  /\ BatchLikeSequence(batch, seq, Len(timeouts))
                     /\ \A k \in 1 .. Len(timeouts) :
                          ~batch.m.all[timeouts[k].id].active)
    /\ EveryStep(
          At("enable_timeouts", "for") =>
            /\ ~alarm_enabled /\ ~alarm_enabled'
            /\ Len(stack) = 1
            /\ Top.now <= clock
            /\ itimer' \in {itimer, 0}
            /\ ev'.kind = "enable" =>
                 /\ \E req \in ValidEnableRequests(Top.now) :
                      /\ req.id = ev'.id
                      /\ <<all_timeouts', active_timeouts'>> =
                             <<EnableRequest(CurMux, Top.now, req).all,
                               EnableRequest(CurMux, Top.now, req).act>>
                 /\ all_timeouts'[ev'.id].start_time = Top.now
                 /\ stack' = ReplaceTop([Top EXCEPT !.i = @ + 1])
                 /\ itimer' = itimer
            /\ ev'.kind # "enable" =>
                 /\ UNCHANGED <<all_timeouts, active_timeouts>>
                 /\ \/ stack' = stack
                    \/ stack' = <<>> /\ (active_timeouts = <<>> \/ ev'.kind = "ERROR")
                    \/ /\ active_timeouts # <<>>
                       /\ Len(stack') = 1
                       /\ stack'[1].name = "schedule_alarm"
                       /\ stack'[1].pc = "enable_alarm"
                       /\ stack'[1].delta =
                              AlarmInterval(Top.now,
                                  all_timeouts[active_timeouts[1]].fin_time))
    /\ EveryStep(
          At("disable_timeouts", "body") =>
            /\ ~alarm_enabled /\ ~alarm_enabled'
            /\ itimer' \in {itimer, 0}
            /\ ev'.kind = "disable" =>
                 /\ <<all_timeouts', active_timeouts'>> =
                        <<DisableOne(CurMux, ev'.id, ev'.flag).all,
                          DisableOne(CurMux, ev'.id, ev'.flag).act>>
                 /\ itimer' = itimer
            /\ ev'.kind # "disable" =>
                 /\ UNCHANGED <<all_timeouts, active_timeouts>>
                 /\ \/ stack' = stack
                    \/ stack' = Pop /\ active_timeouts = <<>>
                    \/ /\ active_timeouts # <<>>
                       /\ Len(stack') = Len(stack)
                       /\ stack'[Len(stack')].name = "schedule_alarm"
                       /\ stack'[Len(stack')].delta =
                              AlarmInterval(clock,
                                  all_timeouts[active_timeouts[1]].fin_time))

\* The second request of a batch has rescheduled a reason that was active,
\* after the clock has moved on from the reading of the batch.
C35_Witness ==
    /\ At("enable_timeouts", "for")
    /\ Top.i = MaxBatch
    /\ ev.kind = "enable"
    /\ ev.flag
    /\ clock > Top.now
    /\ all_timeouts[ev.id].start_time = Top.now
    /\ Len(active_timeouts) = 2


\* ------------------------------------------------ C36

\* schedule_alarm(now) has found the queue non-empty and goes on to
\* enable_alarm() with the interval it has computed.
ComputesInterval ==
    /\ stack' # <<>>
    /\ stack'[Len(stack')].pc = "enable_alarm"
    /\ stack = <<>> \/ Top.pc # "enable_alarm"

\* The timer has just been armed with the smallest interval for a head of
\* the queue, id, that is due.
ArmedForDue(id) ==
    /\ ev.kind = "setitimer"
    /\ ev.val = 1
    /\ active_timeouts # <<>>
    /\ active_timeouts[1] = id
    /\ all_timeouts[id].fin_time <= clock

ReEnabledByHandler(id) ==
    /\ At("handle_sig_alarm", "handler")
    /\ Top.this_timeout = id
    /\ all_timeouts[id].active

C38_BatchErrorNotAtomic ==
    EveryStep(
       /\ ev'.kind = "ERROR" =>
            /\ At("enable_timeouts", "for")
            /\ ev'.val = Top.i
            /\ UNCHANGED <<all_timeouts, active_timeouts, itimer, clock>>
            /\ ~alarm_enabled /\ ~alarm_enabled'
            /\ stack' = <<>>
            /\ Top.i > 0 => active_timeouts' # <<>>
            /\ ev.kind = "enable" =>
                 /\ Top.i > 0
                 /\ all_timeouts'[ev.id].active
                 /\ ~all_timeouts'[ev.id].indicator
                 /\ all_timeouts'[ev.id].fin_time = ev.val
                 /\ all_timeouts'[ev.id].start_time = Top.now
                 /\ Occurrences(active_timeouts', ev.id) = 1
       /\ ~alarm_enabled /\ alarm_enabled' =>
            /\ stack # <<>>
            /\ Top.pc = "enable_alarm"
       /\ ~alarm_enabled /\ stack = <<>> =>
            /\ ~alarm_enabled'
            /\ ev'.kind \notin {"sig_taken", "fire", "setitimer"}
            /\ stack' = <<>> \/ (ev'.kind = "call" /\ Top'.kind = "api")
            /\ UNCHANGED <<all_timeouts, active_timeouts>> \/
                   ev'.kind \in {"RegisterTimeout", "InitializeTimeouts",
                                 "get_indicator", "get_indicator_reset"}
            /\ itimer' # itimer => itimer' = 0)

\* enable_timeouts has left by its error exit after one request: reasons are
\* active, alarm_enabled is false and the timer is not armed.
C38_Witness ==
    /\ ev.kind = "ERROR"
    /\ ev.val = MaxBatch - 1
    /\ stack = <<>>
    /\ active_timeouts # <<>>
    /\ ~alarm_enabled
    /\ itimer = 0
    /\ ~sigpending


\* ------------------------------------------------ C39

\* C39: a portal that is PORTAL_DONE or PORTAL_FAILED keeps that status in
\* every step of a portal function or a transaction hook for as long as its
\* struct lives; and no step stops at the assertion of MarkPortalFailed that
\* the status is not PORTAL_DONE: AtAbort_Portals and AtSubAbort_Portals call
\* MarkPortalFailed on running portals only.
C39_DoneFailedAbsorbing ==
    /\ [](/\ CurrentTransactionState.blockState \in
                {"TBLOCK_INPROGRESS", "TBLOCK_END", "TBLOCK_PREPARE", "ERROR"}
          /\ ~InSubTransaction
          => AtAbortWalk(CurPortals, 1, NoRaise).err = "")
    /\ [](/\ CurrentTransactionState.blockState \in {"TBLOCK_INPROGRESS", "ERROR"}
          /\ InSubTransaction
          => AtSubAbortWalk(CurPortals, 1, GetCurrentSubTransactionId,
                            ParentSubid, GetCurrentSubTransactionId,
                            NoRaise).err = "")
    /\ [][/\ pev'.err # "TRAP: FailedAssertion"
          /\ \A a \in PortalAddr :
               /\ SamePortal(a)
               /\ portals[a].status \in {"PORTAL_DONE", "PORTAL_FAILED"}
               => portals'[a].status = portals[a].status]_vars

\* An abort hook has been through the table with a portal of the failed
\* transaction that had run to the end, which is still PORTAL_DONE, and one
\* that is PORTAL_FAILED.
C39_Witness ==
    /\ pev.kind \in {"AtAbort_Portals", "AtSubAbort_Portals"}
    /\ \E a, b \in PortalAddr :
         /\ portals[a].allocated
         /\ portals[a].status = "PORTAL_DONE"
         /\ portals[a].createSubid # InvalidSubTransactionId
         /\ ~portals[a].resowner
         /\ portals[b].allocated
         /\ portals[b].status = "PORTAL_FAILED"


\* ------------------------------------------------ C40

\* The number of entries a walk has taken out of the table.
Removed(r) == Len(PortalHashTable) - Len(r.tab)

\* The number of portals a walk has taken out of the transaction and left in
\* the table.
Frozen(r) ==
    Cardinality({a \in PortalAddr :
                    /\ portals[a].allocated
                    /\ r.mem[a].allocated
                    /\ portals[a].createSubid # InvalidSubTransactionId
                    /\ r.mem[a].createSubid = InvalidSubTransactionId})

\* The number of entries a walk passes over: the running portals, and in
\* PreCommit_Portals the cursors held over.
Passed(heldToo) ==
    Cardinality({i \in 1 .. Len(PortalHashTable) :
        LET P == portals[PortalHashTable[i].portal]
        IN  \/ P.status = "PORTAL_ACTIVE"
            \/ heldToo /\ P.createSubid = InvalidSubTransactionId})

\* The walk r has ended, and each time it has begun its scan again it had
\* removed an entry or frozen a portal: as many times as it has done that
\* when it returns, at most as many when it leaves by an error, and never
\* more often than the table has entries that it does not pass over.
BoundedRestarts(r, heldToo) ==
    /\ r.restarts <= Removed(r) + Frozen(r)
    /\ r.err = "" => r.restarts = Removed(r) + Frozen(r)
    /\ Removed(r) + Frozen(r) <= Len(PortalHashTable) - Passed(heldToo)
    /\ r.restarts <= Len(PortalHashTable)
    /\ ~r.continued

\* C40: PreCommit_Portals and PortalHashTableDeleteAll end on every table
\* they can be called on, whichever hooks and releases raise errors (the
\* hooks create no portals): a scan begins again only after PortalDrop has
\* removed an entry or, in PreCommit_Portals, a cursor has been held and its
\* createSubid set to InvalidSubTransactionId; running portals and cursors
\* held over are passed over without a restart and stay in the table; so the
\* scan begins again at most once per entry of the table.
C40_RestartsBounded ==
    /\ BetweenCommands =>
           \A raises \in MayRaise :
               LET r == DeleteAllWalk(CurPortals, 1, raises)
               IN  /\ BoundedRestarts(r, FALSE)
                   /\ Frozen(r) = 0
                   /\ \A i \in 1 .. Len(PortalHashTable) :
                        portals[PortalHashTable[i].portal].status =
                            "PORTAL_ACTIVE" =>
                            PortalHashTableLookup(r.tab,
                                PortalHashTable[i].portalname) =
                                    PortalHashTable[i].portal
    /\ /\ CurrentTransactionState.blockState \in
              {"TBLOCK_INPROGRESS", "TBLOCK_END", "TBLOCK_PREPARE"}
       /\ ~InSubTransaction
       /\ CommitAllowed
       => \A isPrepare \in BOOLEAN, raises \in MayRaise :
              LET r == PreCommitWalk(CurPortals, 1, isPrepare, raises)
              IN  /\ BoundedRestarts(r, TRUE)
                  /\ r.err = "" => (r.result <=> r.restarts > 0)
                  /\ \A i \in 1 .. Len(PortalHashTable) :
                       LET P == portals[PortalHashTable[i].portal]
                       IN  \/ P.status = "PORTAL_ACTIVE"
                           \/ P.createSubid = InvalidSubTransactionId
                           => PortalHashTableLookup(r.tab,
                                  PortalHashTable[i].portalname) =
                                      PortalHashTable[i].portal

\* PreCommit_Portals can be called on a table with a cursor to hold and a
\* portal to drop, and begins its scan again twice.
C40_Witness ==
    /\ CurrentTransactionState.blockState = "TBLOCK_INPROGRESS"
    /\ ~InSubTransaction
    /\ CommitAllowed
    /\ Len(PortalHashTable) = 2
    /\ LET r == PreCommitWalk(CurPortals, 1, FALSE, NoRaise)
       IN  /\ r.err = ""
           /\ r.restarts = 2
           /\ Removed(r) = 1
           /\ Frozen(r) = 1

=============================================================================
